---- MODULE Spec2Model ----
(***************************************************************************)
(* Deployment and data-synchronisation orchestrator.                       *)
(*                                                                         *)
(* The program is single threaded.  Its control state is a call stack of   *)
(* frames [fn, at, loc]: fn is the function of the source, at the point    *)
(* inside it, loc its local variables.  A call pushes the callee's frame;  *)
(* a return pops it and leaves the result (or the raised error) in ret.    *)
(* The database, the file system and the psycopg2 pool are the environment *)
(* the code acts on; their failures are nondeterministic.                  *)
(***************************************************************************)
EXTENDS Integers, Sequences, FiniteSets, TLC

\* ---------------------------------------------------------------- bounds
MaxConn == 2        \* max_conn of the pool (the source's default is larger)
MaxFaults == 1      \* environment failures injected in one behaviour
MaxCalls == 2       \* scoped uses and helper calls made on one DatabaseManager
MaxRows == 2        \* data rows of a CSV file
BatchSize == 1      \* batch_size of _load_csv_with_insert (scaled down)

\* -------------------------------------------------------- program constants
MinConn == 1

DEPLOYMENT_ORDER ==
    << [folder |-> "DDL",       filename |-> "CREATE_company_info_raw.sql"],
       [folder |-> "DDL",       filename |-> "CREATE_unified_company_member.sql"],
       [folder |-> "DDL",       filename |-> "CREATE_new_agents.sql"],
       [folder |-> "DDL",       filename |-> "CREATE_unified_merge_logs.sql"],
       [folder |-> "DDL",       filename |-> "CREATE_new_unified_agents.sql"],
       [folder |-> "FUNCTIONS", filename |-> "helper_functions.sql"],
       [folder |-> "FUNCTIONS", filename |-> "run_unified_member_pipeline.SQL"],
       [folder |-> "FUNCTIONS", filename |-> "run_unified_merge_batch.sql"],
       [folder |-> "TRIGGERS",  filename |-> "TRG_new_unified_agents.sql"] >>

RLS_SCRIPT == [folder |-> "RLS", filename |-> "RLS_enable_rls.sql"]

\* the fixed total order of the scripts, the policy script last
FullOrder == DEPLOYMENT_ORDER \o <<RLS_SCRIPT>>

CSV_TABLE_MAPPING ==
    << [csv |-> "raw_company_info.csv", schema |-> "public", table |-> "company_info_raw"],
       [csv |-> "new_agents.csv",       schema |-> "public", table |-> "new_agents"] >>

expected_tables ==
    << [schema |-> "bronze", table |-> "company_info_raw"],
       [schema |-> "public", table |-> "unified_company_member"],
       [schema |-> "public", table |-> "new_agents"],
       [schema |-> "public", table |-> "unified_merge_logs"],
       [schema |-> "public", table |-> "new_unified_agents"] >>

expected_functions ==
    << "array_merge_unique", "update_last_updated_column",
       "run_unified_member_pipeline", "run_unified_merge_batch" >>

\* ------------------------------------------------------------------ state
VARIABLES
    stack,            \* call stack, stack[1] is the running frame
    ret,              \* result of the last call that returned or raised
    pool,             \* psycopg2 ThreadedConnectionPool of the DatabaseManager
    conns,            \* the connections: session attributes, transaction
    db,               \* the database: tables, functions, rows
    fs,               \* the file system as the run has observed it
    deployment_log,   \* SQLDeployer.deployment_log
    load_log,         \* DataLoader.load_log
    trace,            \* history: the observable events, in order
    lastUow,          \* history: the last completed scoped cursor use
    faults,           \* environment failures injected so far
    ncalls            \* top-level calls made so far

vars == << stack, ret, pool, conns, db, fs, deployment_log, load_log,
           trace, lastUow, faults, ncalls >>

ConnId == 1 .. MaxConn

Qual(schema, table) == [schema |-> schema, table |-> table]

Range(s) == { s[i] : i \in 1 .. Len(s) }

\* ----------------------------------------------------------- the database
AllTables == Range(expected_tables)

EmptyDb ==
    [ tables |-> {}, funcs |-> {}, triggers |-> FALSE, rls |-> FALSE,
      rows |-> [t \in AllTables |-> 0], processed |-> 0, merges |-> 0 ]

\* what the scripts of the script tree create (the scripts are not part of
\* the sources; they are named after the object they define)
ScriptTable(filename) ==
    CASE filename = "CREATE_company_info_raw.sql"       -> Qual("bronze", "company_info_raw")
      [] filename = "CREATE_unified_company_member.sql" -> Qual("public", "unified_company_member")
      [] filename = "CREATE_new_agents.sql"             -> Qual("public", "new_agents")
      [] filename = "CREATE_unified_merge_logs.sql"     -> Qual("public", "unified_merge_logs")
      [] filename = "CREATE_new_unified_agents.sql"     -> Qual("public", "new_unified_agents")

ScriptFuncs(filename) ==
    CASE filename = "helper_functions.sql" -> {"array_merge_unique", "update_last_updated_column"}
      [] filename = "run_unified_member_pipeline.SQL" -> {"run_unified_member_pipeline"}
      [] filename = "run_unified_merge_batch.sql" -> {"run_unified_merge_batch"}

\* ------------------------------------------------------------- statements
\* One element of the body of a scoped cursor use: a statement sent with
\* cursor.execute / copy_expert, and how the code reads its result
\* (fetch = "index": row[0]; "key": row['name']; "none": no fetch).
ScriptStmt(item, drop) ==
    [op |-> "script", arg |-> item, drop |-> drop, fetch |-> "none"]
QueryStmt(kind, arg, fetch) ==
    [op |-> "query", arg |-> [kind |-> kind, on |-> arg], drop |-> <<>>, fetch |-> fetch]
\* COPY table FROM STDIN takes the fields of a line by position (fits: the
\* file's columns are the table's, in the table's order); INSERT names the
\* columns of the file's header
CopyStmt(t, n, fits) ==
    [op |-> "copy", arg |-> [table |-> t, n |-> n, fits |-> fits], drop |-> <<>>, fetch |-> "none"]
InsertStmt(t) ==
    [op |-> "insert", arg |-> [table |-> t, n |-> 1, fits |-> TRUE], drop |-> <<>>, fetch |-> "none"]
CallStmt(f) ==
    [op |-> "call", arg |-> f, drop |-> <<>>, fetch |-> "none"]
\* not a statement: the body opens a scoped use of its own while it holds
\* its connection (a with-block inside the with-block)
WithStmt(body) ==
    [op |-> "with", arg |-> body, drop |-> <<>>, fetch |-> "none"]

\* the statement cannot succeed on database d (a line whose fields do not
\* fit the table is rejected; a file without data lines has none)
DetFail(st, d) ==
    CASE st.op \in {"copy", "insert"} ->
            st.arg.table \notin d.tables \/ (~st.arg.fits /\ st.arg.n > 0)
      [] st.op = "call" -> st.arg \notin d.funcs
      [] st.op = "query" ->
            CASE st.arg.kind = "count" -> st.arg.on \notin d.tables
              [] st.arg.kind = "stats" -> Qual("public", "new_unified_agents") \notin d.tables
              [] st.arg.kind = "member_counts" -> Qual("public", "unified_company_member") \notin d.tables
              [] st.arg.kind = "merge_log" -> Qual("public", "unified_merge_logs") \notin d.tables
              [] OTHER -> FALSE
      [] OTHER -> FALSE

DropTables(d, drop) ==
    [d EXCEPT !.tables = @ \ Range(drop),
              !.rows = [t \in AllTables |-> IF t \in Range(drop) THEN 0 ELSE @[t]]]

\* the database after the statement succeeded
Apply(st, d) ==
    CASE st.op = "script" ->
            LET d1 == DropTables(d, st.drop) IN
            CASE st.arg.folder = "DDL" ->
                    [d1 EXCEPT !.tables = @ \cup {ScriptTable(st.arg.filename)}]
              [] st.arg.folder = "FUNCTIONS" ->
                    [d1 EXCEPT !.funcs = @ \cup ScriptFuncs(st.arg.filename)]
              [] st.arg.folder = "TRIGGERS" -> [d1 EXCEPT !.triggers = TRUE]
              [] OTHER -> [d1 EXCEPT !.rls = TRUE]
      [] st.op \in {"copy", "insert"} ->
            [d EXCEPT !.rows[st.arg.table] = @ + st.arg.n]
      [] st.op = "call" ->
            IF st.arg = "run_unified_member_pipeline"
            THEN [d EXCEPT !.processed = @ + 1]
            ELSE [d EXCEPT !.merges = @ + 1]
      [] OTHER -> d

\* the value the code reads from the statement's result
Value(st, d) ==
    CASE st.op = "query" ->
            CASE st.arg.kind = "select1" -> 1
              [] st.arg.kind = "table_exists" -> st.arg.on \in d.tables
              [] st.arg.kind = "count" -> d.rows[st.arg.on]
              [] st.arg.kind = "func_exists" -> st.arg.on \in d.funcs
              [] OTHER -> st.arg.kind
      [] st.op = "copy" -> st.arg.n
      [] OTHER -> 0

Outcome(ev, x, ok) == [ev |-> ev, x |-> x, ok |-> ok]
Event(ev, x) == Outcome(ev, x, TRUE)

\* the events recorded when the statement is sent to the database, with
\* whether the statement succeeded; of the queries only the statistics
\* read-back is recorded
Sent(st, ok) ==
    CASE st.op = "script" -> <<Outcome("exec", st.arg, ok)>>
      [] st.op = "call" -> <<Outcome("invoke", st.arg, ok)>>
      [] st.op = "query" -> IF st.arg.kind = "stats" THEN <<Outcome("query", "stats", ok)>> ELSE <<>>
      [] OTHER -> <<Outcome(st.op, st.arg.table, ok)>>

\* a dict-shaped row has no position 0, a positional row has no key
FetchFails(st, shapeDict) ==
    \/ st.fetch = "index" /\ shapeDict
    \/ st.fetch = "key" /\ ~shapeDict

\* ------------------------------------------------------- psycopg2 connection
FreshConn == [live |-> TRUE, autocommit |-> FALSE, dict |-> FALSE,
              txn |-> "idle", snap |-> <<>>]
NoConn == [live |-> FALSE, autocommit |-> FALSE, dict |-> FALSE,
           txn |-> "idle", snap |-> <<>>]

\* conn.rollback(): undo the open transaction, if there is one
RollbackDb(c) == IF conns[c].txn \in {"intrans", "inerror"} THEN conns[c].snap[1] ELSE db
RolledBack(cn) == IF cn.txn = "unknown" THEN cn ELSE [cn EXCEPT !.txn = "idle", !.snap = <<>>]
\* the server connection is lost: the session is closed (transaction status
\* unknown) and the server aborts the transaction that was open on it
Lost(cn) == [cn EXCEPT !.txn = "unknown", !.snap = <<>>]

\* ---------------------------------------------------------------- frames
Frame(fn, at, loc) == [fn |-> fn, at |-> at, loc |-> loc]
Running(fn, at) == stack # <<>> /\ stack[1].fn = fn /\ stack[1].at = at
Ok(val) == [exc |-> FALSE, val |-> val, err |-> ""]
Err(msg) == [exc |-> TRUE, val |-> 0, err |-> msg]
\* move the running frame to another point / other locals
Goto(at, loc) == [stack EXCEPT ![1] = Frame(stack[1].fn, at, loc)]
Call(callee, at, loc) == <<callee>> \o Goto(at, loc)
\* the same for a callee that is entered together with its first call
Call2(callees, at, loc) == callees \o Goto(at, loc)

NoUow == [autoc |-> FALSE, raised |-> FALSE, intxn |-> FALSE, nexec |-> 0,
          pre |-> EmptyDb, post |-> EmptyDb, full |-> EmptyDb, done |-> FALSE]

GetCursorFrame(dict_cursor, autocommit, body) ==
    Frame("get_cursor", "getconn",
          [dict_cursor |-> dict_cursor, autocommit |-> autocommit, body |-> body,
           body0 |-> body, conn |-> 0, shape |-> FALSE, val |-> 0, err |-> "",
           pre |-> EmptyDb, nexec |-> 0, intxn |-> FALSE])

RECURSIVE ApplyAll(_, _)
ApplyAll(body, d) ==
    IF body = <<>> THEN d ELSE ApplyAll(Tail(body), Apply(Head(body), d))

\* ------------------------------------------------- DatabaseManager.__init__
\* ThreadedConnectionPool(min_conn, max_conn, dsn) opens min_conn connections
DatabaseManager_init ==
    /\ pool.status = "none"
    /\ \/ /\ pool' = [status |-> "open", idle |-> [i \in 1 .. MinConn |-> i], used |-> {}]
          /\ conns' = [c \in ConnId |-> IF c <= MinConn THEN FreshConn ELSE NoConn]
          /\ UNCHANGED faults
       \/ /\ faults < MaxFaults
          /\ faults' = faults + 1
          /\ UNCHANGED <<pool, conns>>

\* ------------------------------------------------- DatabaseManager.close
\* mutant: close() leaves the pool as it is
closeall_nothing(p) == p

\* closeall closes the idle connections and the checked-out ones
closeall(p) == [p EXCEPT !.status = "closed", !.idle = <<>>, !.used = {}]
AfterCloseall(p, cs) == IF p.status = "closed" THEN [c \in ConnId |-> NoConn] ELSE cs

\* ------------------------------------------ get_connection / get_cursor
\* the connection c leaves the pool for the caller; the code then sets the
\* session attributes the caller asked for and never resets them
Checkout(c, cn, f) ==
    /\ conns' = [conns EXCEPT ![c] = [cn EXCEPT !.dict = @ \/ f.dict_cursor,
                                                !.autocommit = @ \/ f.autocommit]]
    /\ stack' = Goto("body", [f EXCEPT !.conn = c,
                                       !.shape = cn.dict \/ f.dict_cursor,
                                       !.intxn = ~(cn.autocommit \/ f.autocommit),
                                       !.pre = db])

get_cursor_getconn ==
    /\ Running("get_cursor", "getconn")
    /\ LET f == stack[1].loc IN
       \/ \* getconn raises: the pool is closed or exhausted; conn stays None
          /\ \/ pool.status # "open"
             \/ pool.idle = <<>> /\ Cardinality(pool.used) = MaxConn
          /\ stack' = Tail(stack)
          /\ ret' = Err("PoolError")
          /\ UNCHANGED <<pool, conns, faults>>
       \/ \* an idle connection is taken from the pool, the last one first
          /\ pool.status = "open" /\ pool.idle # <<>>
          /\ LET c == pool.idle[Len(pool.idle)] IN
                /\ pool' = [pool EXCEPT !.idle = SubSeq(@, 1, Len(@) - 1),
                                        !.used = @ \cup {c}]
                /\ Checkout(c, conns[c], f)
          /\ UNCHANGED <<ret, faults>>
       \/ \* no idle connection and room for one more: a new one is opened
          /\ pool.status = "open" /\ pool.idle = <<>>
          /\ Cardinality(pool.used) < MaxConn
          /\ \/ LET c == CHOOSE x \in ConnId : ~conns[x].live IN
                   /\ pool' = [pool EXCEPT !.used = @ \cup {c}]
                   /\ Checkout(c, FreshConn, f)
                   /\ UNCHANGED <<ret, faults>>
             \/ /\ faults < MaxFaults
                /\ faults' = faults + 1
                /\ stack' = Tail(stack)
                /\ ret' = Err("connection failed")
                /\ UNCHANGED <<pool, conns>>
    /\ UNCHANGED <<db, fs, deployment_log, load_log, trace, lastUow, ncalls>>

\* the connection after a statement ran on it: outside autocommit the first
\* statement opens a transaction
InTxn(cn, status) ==
    IF cn.autocommit THEN cn
    ELSE [cn EXCEPT !.txn = status,
                    !.snap = IF cn.txn = "idle" THEN <<db>> ELSE @]

\* one statement of the body of the with-block
get_cursor_execute ==
    /\ Running("get_cursor", "body")
    /\ stack[1].loc.body # <<>>
    /\ Head(stack[1].loc.body).op # "with"
    /\ LET f == stack[1].loc
           c == f.conn
           st == Head(f.body) IN
       \/ \* the statement fails: the database rejects it, or the environment
          /\ \/ /\ DetFail(st, db)
                /\ conns' = [conns EXCEPT ![c] = InTxn(@, "inerror")]
                /\ UNCHANGED <<faults, db>>
             \/ /\ ~DetFail(st, db) /\ faults < MaxFaults /\ faults' = faults + 1
                /\ \/ /\ conns' = [conns EXCEPT ![c] = InTxn(@, "inerror")]
                      /\ UNCHANGED db
                   \/ /\ conns' = [conns EXCEPT ![c] = Lost(@)]
                      /\ db' = RollbackDb(c)
          /\ stack' = Goto("except", [f EXCEPT !.err = "statement failed"])
          /\ trace' = trace \o Sent(st, FALSE)
       \/ \* the statement succeeds
          /\ ~DetFail(st, db)
          /\ db' = Apply(st, db)
          /\ conns' = [conns EXCEPT ![c] = InTxn(@, "intrans")]
          /\ IF FetchFails(st, f.shape)
             THEN stack' = Goto("except", [f EXCEPT !.err = "KeyError"])
             ELSE stack' = Goto("body", [f EXCEPT !.body = Tail(@),
                                                  !.val = Value(st, db),
                                                  !.nexec = @ + 1])
          /\ trace' = trace \o Sent(st, TRUE)
          /\ UNCHANGED faults
    /\ UNCHANGED <<ret, pool, fs, deployment_log, load_log, lastUow, ncalls>>

\* the body enters a scoped use of its own: a second acquisition is made
\* while the connection of this one is checked out
get_cursor_with ==
    /\ Running("get_cursor", "body")
    /\ stack[1].loc.body # <<>>
    /\ Head(stack[1].loc.body).op = "with"
    /\ LET f == stack[1].loc IN
       stack' = Call(GetCursorFrame(FALSE, FALSE, Head(f.body).arg), "with_ret",
                     [f EXCEPT !.body = Tail(@)])
    /\ UNCHANGED <<ret, pool, conns, db, fs, deployment_log, load_log, trace,
                   lastUow, faults, ncalls>>

\* the inner with-block is over: its error, if any, is raised in the body
get_cursor_with_ret ==
    /\ Running("get_cursor", "with_ret")
    /\ LET f == stack[1].loc IN
       IF ret.exc
       THEN stack' = Goto("except", [f EXCEPT !.err = ret.err])
       ELSE stack' = Goto("body", f)
    /\ UNCHANGED <<ret, pool, conns, db, fs, deployment_log, load_log, trace,
                   lastUow, faults, ncalls>>

\* normal exit of the body: `if not autocommit: conn.commit()`
get_cursor_commit ==
    /\ Running("get_cursor", "body")
    /\ stack[1].loc.body = <<>>
    /\ LET f == stack[1].loc
           c == f.conn IN
       IF f.autocommit \/ conns[c].txn = "idle"
       THEN /\ stack' = Goto("putconn", f)
            /\ UNCHANGED <<conns, db, faults, trace>>
       ELSE \/ /\ conns' = [conns EXCEPT ![c] = RolledBack(@)]
               /\ stack' = Goto("putconn", f)
               /\ UNCHANGED <<db, faults, trace>>
            \/ \* the commit fails: the transaction is aborted
               /\ faults < MaxFaults
               /\ faults' = faults + 1
               /\ \/ /\ conns' = [conns EXCEPT ![c].txn = "inerror"]
                     /\ UNCHANGED db
                  \/ /\ conns' = [conns EXCEPT ![c] = Lost(@)]
                     /\ db' = RollbackDb(c)
               /\ stack' = Goto("except", [f EXCEPT !.err = "commit failed"])
               /\ trace' = Append(trace, Outcome("commit", c, FALSE))
    /\ UNCHANGED <<ret, pool, fs, deployment_log, load_log, lastUow, ncalls>>

\* error exit: `if not autocommit: conn.rollback()` in get_cursor, then
\* `conn.rollback()` in get_connection
get_cursor_except ==
    /\ Running("get_cursor", "except")
    /\ LET f == stack[1].loc
           c == f.conn IN
       /\ db' = RollbackDb(c)
       /\ conns' = [conns EXCEPT ![c] = RolledBack(@)]
       /\ stack' = Goto("putconn", f)
    /\ UNCHANGED <<ret, pool, fs, deployment_log, load_log, trace, lastUow, faults, ncalls>>

\* mutant: the connection is put back among the idle ones but stays
\* registered as checked out
putconn_kept(p, c) ==
    IF Len(p.idle) < MinConn /\ conns[c].txn # "unknown" THEN [p EXCEPT !.idle = Append(@, c)] ELSE p

\* mutant: the finally clause does not give the connection back
putconn_leaked(p, c) == p

\* pool.putconn(conn): the connection goes back to the pool when the pool
\* holds fewer than min_conn idle ones, after a rollback if it is not idle;
\* otherwise, and when its server connection is lost, it is discarded
putconn(p, c) ==
    IF Len(p.idle) < MinConn /\ conns[c].txn # "unknown"
    THEN [p EXCEPT !.used = @ \ {c}, !.idle = Append(@, c)]
    ELSE [p EXCEPT !.used = @ \ {c}]

\* finally: putconn; the context manager returns or re-raises
get_cursor_putconn ==
    /\ Running("get_cursor", "putconn")
    /\ LET f == stack[1].loc
           c == f.conn IN
       /\ pool' = putconn(pool, c)
       /\ db' = RollbackDb(c)
       /\ conns' = [conns EXCEPT ![c] = IF c \in Range(pool'.idle)
                                        THEN RolledBack(@) ELSE NoConn]
       /\ lastUow' = [autoc |-> f.autocommit, raised |-> f.err # "",
                      intxn |-> f.intxn, nexec |-> f.nexec, pre |-> f.pre,
                      post |-> db',
                      full |-> IF f.err = "" THEN ApplyAll(f.body0, f.pre) ELSE f.pre,
                      done |-> TRUE]
       /\ stack' = Tail(stack)
       /\ ret' = IF f.err # "" THEN Err(f.err) ELSE Ok(f.val)
    /\ UNCHANGED <<fs, deployment_log, load_log, trace, faults, ncalls>>

\* ------------------------------------------------------------ file system
ScriptFiles == Range(FullOrder)
CsvFiles == { CSV_TABLE_MAPPING[i].csv : i \in 1 .. Len(CSV_TABLE_MAPPING) }

\* A file is "unknown" until the run first looks at it; what the run then
\* sees stays true for the rest of the run.
UnknownFs ==
    [ database_url |-> "unknown", sql_dir |-> "unknown", csv_dir |-> "unknown",
      scripts |-> [x \in ScriptFiles |-> "unknown"],
      csv |-> [x \in CsvFiles |-> "unknown"],
      rows |-> [x \in CsvFiles |-> 0], positional |-> [x \in CsvFiles |-> TRUE] ]

Seen(b) == IF b THEN "present" ELSE "absent"
\* the file system answers e when asked whether a path exists
Answers(state, e) == state = "unknown" \/ state = Seen(e)

\* ------------------------------------------------------------ SQLDeployer
\* a file name of the script tree as prefix, token and suffix
Parts(filename) ==
    CASE filename = "CREATE_company_info_raw.sql" ->
            [prefix |-> "CREATE_", token |-> "company_info_raw", suffix |-> ".sql"]
      [] filename = "CREATE_unified_company_member.sql" ->
            [prefix |-> "CREATE_", token |-> "unified_company_member", suffix |-> ".sql"]
      [] filename = "CREATE_new_agents.sql" ->
            [prefix |-> "CREATE_", token |-> "new_agents", suffix |-> ".sql"]
      [] filename = "CREATE_unified_merge_logs.sql" ->
            [prefix |-> "CREATE_", token |-> "unified_merge_logs", suffix |-> ".sql"]
      [] filename = "CREATE_new_unified_agents.sql" ->
            [prefix |-> "CREATE_", token |-> "new_unified_agents", suffix |-> ".sql"]
      [] filename = "helper_functions.sql" ->
            [prefix |-> "", token |-> "helper_functions", suffix |-> ".sql"]
      [] filename = "run_unified_member_pipeline.SQL" ->
            [prefix |-> "", token |-> "run_unified_member_pipeline", suffix |-> ".SQL"]
      [] filename = "run_unified_merge_batch.sql" ->
            [prefix |-> "", token |-> "run_unified_merge_batch", suffix |-> ".sql"]
      [] filename = "TRG_new_unified_agents.sql" ->
            [prefix |-> "TRG_", token |-> "new_unified_agents", suffix |-> ".sql"]
      [] filename = "CREATE_new_agents.SQL" ->
            [prefix |-> "CREATE_", token |-> "new_agents", suffix |-> ".SQL"]
      [] filename = "TABLE_new_agents.sql" ->
            [prefix |-> "TABLE_", token |-> "new_agents", suffix |-> ".sql"]
      [] filename = "CREATE_audit_log.sql" ->
            [prefix |-> "CREATE_", token |-> "audit_log", suffix |-> ".sql"]
      [] OTHER -> [prefix |-> "", token |-> filename, suffix |-> ""]

schema_mapping ==
    << [token |-> "company_info_raw",       to |-> Qual("bronze", "company_info_raw")],
       [token |-> "unified_company_member", to |-> Qual("public", "unified_company_member")],
       [token |-> "new_agents",             to |-> Qual("public", "new_agents")],
       [token |-> "unified_merge_logs",     to |-> Qual("public", "unified_merge_logs")],
       [token |-> "new_unified_agents",     to |-> Qual("public", "new_unified_agents")] >>

\* mutant: the suffix of the file name is not looked at
_extract_table_name_any_suffix(filename) ==
    LET p == Parts(filename)
        hit == { i \in 1 .. Len(schema_mapping) : schema_mapping[i].token = p.token } IN
    IF p.prefix = "CREATE_" /\ hit # {}
    THEN << schema_mapping[CHOOSE i \in hit : TRUE].to >>
    ELSE <<>>

\* the table to drop, as a sequence of zero or one table (None is <<>>)
_extract_table_name(filename) ==
    LET p == Parts(filename)
        hit == { i \in 1 .. Len(schema_mapping) : schema_mapping[i].token = p.token } IN
    IF p.prefix = "CREATE_" /\ p.suffix = ".sql" /\ hit # {}
    THEN << schema_mapping[CHOOSE i \in hit : TRUE].to >>
    ELSE <<>>

\* mutant: the folder filters of deploy_ddl and deploy_functions exchanged
FolderOf_exchanged(fn) ==
    CASE fn = "deploy_ddl" -> "FUNCTIONS"
      [] fn = "deploy_functions" -> "DDL"
      [] fn = "deploy_triggers" -> "TRIGGERS"

FolderOf(fn) ==
    CASE fn = "deploy_ddl" -> "DDL"
      [] fn = "deploy_functions" -> "FUNCTIONS"
      [] fn = "deploy_triggers" -> "TRIGGERS"

DeployFrame(fn, force_recreate) ==
    Frame(fn, "loop", [i |-> 1, force_recreate |-> force_recreate, results |-> <<>>])

\* _execute_sql_script(content, name) -> execute_script -> get_cursor(autocommit=True)
ExecuteSqlScript(item, drop) ==
    << GetCursorFrame(FALSE, TRUE, <<ScriptStmt(item, drop)>>),
       Frame("_execute_sql_script", "ret", [script |-> item]) >>

\* _load_sql_file, then the call of _execute_sql_script, for one script:
\* the file is missing and the loader raises, or it is read and executed
LoadAndExecute(item, drop, at, loc) ==
    \E e \in BOOLEAN :
       /\ Answers(fs.scripts[item], e)
       /\ fs' = [fs EXCEPT !.scripts[item] = Seen(e)]
       /\ IF e
          THEN /\ trace' = Append(trace, Event("load", item))
               /\ stack' = ExecuteSqlScript(item, drop) \o Goto(at, loc)
               /\ UNCHANGED ret
          ELSE /\ trace' = Append(trace, Event("missing", item))
               /\ stack' = Tail(stack)
               /\ ret' = Err("SQL file not found")

\* deploy_ddl / deploy_functions / deploy_triggers: the for loop
deploy_loop(fn) ==
    /\ Running(fn, "loop")
    /\ LET f == stack[1].loc IN
       IF f.i > Len(DEPLOYMENT_ORDER)
       THEN /\ stack' = Tail(stack)
            /\ ret' = Ok(f.results)
            /\ UNCHANGED <<fs, trace>>
       ELSE IF DEPLOYMENT_ORDER[f.i].folder # FolderOf(fn)
       THEN /\ stack' = Goto("loop", [f EXCEPT !.i = @ + 1])
            /\ UNCHANGED <<ret, fs, trace>>
       ELSE LET item == DEPLOYMENT_ORDER[f.i]
                drop == IF fn = "deploy_ddl" /\ f.force_recreate
                        THEN _extract_table_name(item.filename) ELSE <<>> IN
            LoadAndExecute(item, drop, "exec_ret", f)
    /\ UNCHANGED <<pool, conns, db, deployment_log, load_log, lastUow, faults, ncalls>>

\* mutant: the except clause logs the error and goes on with the next script
deploy_exec_ret_continue(fn) ==
    /\ Running(fn, "exec_ret")
    /\ LET f == stack[1].loc IN
       /\ stack' = Goto("loop", [f EXCEPT !.i = @ + 1,
                                          !.results = IF ret.exc THEN @ ELSE Append(@, ret.val)])
       /\ UNCHANGED ret
    /\ UNCHANGED <<pool, conns, db, fs, deployment_log, load_log, trace, lastUow, faults, ncalls>>

\* back from _execute_sql_script: `except: raise`, else results.append
deploy_exec_ret(fn) ==
    /\ Running(fn, "exec_ret")
    /\ LET f == stack[1].loc IN
       IF ret.exc
       THEN /\ stack' = Tail(stack)
            /\ UNCHANGED ret
       ELSE /\ stack' = Goto("loop", [f EXCEPT !.i = @ + 1,
                                               !.results = Append(@, ret.val)])
            /\ UNCHANGED ret
    /\ UNCHANGED <<pool, conns, db, fs, deployment_log, load_log, trace, lastUow, faults, ncalls>>

\* mutant: the newest result is put in front of the log
Logged_in_front(log, result) == <<result>> \o log

\* self.deployment_log.append(result) / self.load_log.append(result)
Logged(log, result) == Append(log, result)

\* _execute_sql_script after execute_script: the result is appended to the
\* deployment log; a failure is re-raised
_execute_sql_script_ret ==
    /\ Running("_execute_sql_script", "ret")
    /\ LET item == stack[1].loc.script
           result == [script |-> item,
                      status |-> IF ret.exc THEN "failed" ELSE "success",
                      error |-> ret.err] IN
       /\ deployment_log' = Logged(deployment_log, result)
       /\ trace' = IF ret.exc THEN Append(trace, Event("failed", item)) ELSE trace
       /\ ret' = IF ret.exc THEN ret ELSE Ok(result)
       /\ stack' = Tail(stack)
    /\ UNCHANGED <<pool, conns, db, fs, load_log, lastUow, faults, ncalls>>

\* mutant: a disabled policy phase is reported as an error
SkippedResult_error == Err("RLS disabled")

\* `if not enable: return {'status': 'skipped', 'reason': 'disabled'}`
SkippedResult == Ok([status |-> "skipped", reason |-> "disabled"])

\* deploy_rls(enable)
deploy_rls_start ==
    /\ Running("deploy_rls", "start")
    /\ LET f == stack[1].loc IN
       IF ~f.enable
       THEN /\ stack' = Tail(stack)
            /\ ret' = SkippedResult
            /\ UNCHANGED <<fs, trace>>
       ELSE LoadAndExecute(RLS_SCRIPT, <<>>, "exec_ret", f)
    /\ UNCHANGED <<pool, conns, db, deployment_log, load_log, lastUow, faults, ncalls>>

deploy_rls_ret ==
    /\ Running("deploy_rls", "exec_ret")
    /\ stack' = Tail(stack)
    /\ UNCHANGED <<ret, pool, conns, db, fs, deployment_log, load_log, trace, lastUow, faults, ncalls>>

\* deploy_all(force_recreate, enable_rls)
DeployAllFrame(force_recreate, enable_rls) ==
    Frame("deploy_all", "start",
          [force_recreate |-> force_recreate, enable_rls |-> enable_rls,
           ddl_count |-> 0, function_count |-> 0, trigger_count |-> 0])

\* mutant: the except clause reports a success
FailedSummary_success(error) ==
    [status |-> "success", error |-> error, deployment_log |-> deployment_log,
     ddl_count |-> 0, function_count |-> 0, trigger_count |-> 0, rls_enabled |-> FALSE]

\* the summary returned by the except clause of deploy_all
FailedSummary(error) ==
    [status |-> "failed", error |-> error, deployment_log |-> deployment_log,
     ddl_count |-> 0, function_count |-> 0, trigger_count |-> 0, rls_enabled |-> FALSE]

\* the phases of deploy_all, one after the other inside one try block
deploy_all_step ==
    /\ stack # <<>> /\ stack[1].fn = "deploy_all"
    /\ LET f == stack[1].loc
           at == stack[1].at IN
       IF at # "start" /\ ret.exc
       THEN \* except Exception: the failed summary is returned
            /\ stack' = Tail(stack)
            /\ ret' = Ok(FailedSummary(ret.err))
       ELSE CASE at = "start" ->
                   /\ stack' = Call(DeployFrame("deploy_ddl", f.force_recreate), "ddl_ret", f)
                   /\ UNCHANGED ret
              [] at = "ddl_ret" ->
                   /\ stack' = Call(DeployFrame("deploy_functions", FALSE), "functions_ret",
                                    [f EXCEPT !.ddl_count = Len(ret.val)])
                   /\ UNCHANGED ret
              [] at = "functions_ret" ->
                   /\ stack' = Call(DeployFrame("deploy_triggers", FALSE), "triggers_ret",
                                    [f EXCEPT !.function_count = Len(ret.val)])
                   /\ UNCHANGED ret
              [] at = "triggers_ret" ->
                   /\ stack' = Call(Frame("deploy_rls", "start", [enable |-> f.enable_rls]),
                                    "rls_ret", [f EXCEPT !.trigger_count = Len(ret.val)])
                   /\ UNCHANGED ret
              [] at = "rls_ret" ->
                   /\ stack' = Tail(stack)
                   /\ ret' = Ok([status |-> "success", error |-> "",
                                 deployment_log |-> deployment_log,
                                 ddl_count |-> f.ddl_count,
                                 function_count |-> f.function_count,
                                 trigger_count |-> f.trigger_count,
                                 rls_enabled |-> f.enable_rls])
    /\ UNCHANGED <<pool, conns, db, fs, deployment_log, load_log, trace, lastUow, faults, ncalls>>

\* ------------------------------------- DatabaseManager reporting helpers
\* test_connection, get_database_info, table_exists, get_row_count and
\* DataLoader._get_pipeline_stats: one scoped cursor use inside try/except
HelperCall(fn, dict_cursor, stmt) ==
    << GetCursorFrame(dict_cursor, FALSE, <<stmt>>), Frame(fn, "ret", [stmt |-> stmt]) >>

test_connection == HelperCall("test_connection", FALSE, QueryStmt("select1", 0, "index"))
get_database_info == HelperCall("get_database_info", TRUE, QueryStmt("info", 0, "key"))
table_exists(table, schema) ==
    HelperCall("table_exists", FALSE, QueryStmt("table_exists", Qual(schema, table), "index"))
\* mutant: the count is taken with a statement that writes a row
get_row_count_writing(table, schema) ==
    HelperCall("get_row_count", FALSE, InsertStmt(Qual(schema, table)))

get_row_count(table, schema) ==
    HelperCall("get_row_count", FALSE, QueryStmt("count", Qual(schema, table), "index"))
_get_pipeline_stats == HelperCall("_get_pipeline_stats", TRUE, QueryStmt("stats", 0, "key"))

Helpers == {"test_connection", "get_database_info", "table_exists",
            "get_row_count", "_get_pipeline_stats"}

\* what the helper returns when its with-block raised
OnFailure(fn) ==
    CASE fn \in {"test_connection", "table_exists"} -> FALSE
      [] fn = "get_row_count" -> -1
      [] OTHER -> "empty"

\* mutant: get_row_count lets the error of its with-block through
helper_ret_raising(fn) ==
    /\ Running(fn, "ret")
    /\ stack' = Tail(stack)
    /\ ret' = IF ret.exc THEN (IF fn = "get_row_count" THEN ret ELSE Ok(OnFailure(fn)))
              ELSE IF fn = "test_connection" THEN Ok(ret.val = 1)
              ELSE ret
    /\ UNCHANGED <<pool, conns, db, fs, deployment_log, load_log, trace, lastUow, faults, ncalls>>

helper_ret(fn) ==
    /\ Running(fn, "ret")
    /\ stack' = Tail(stack)
    /\ ret' = IF ret.exc THEN Ok(OnFailure(fn))
              ELSE IF fn = "test_connection" THEN Ok(ret.val = 1)
              ELSE ret
    /\ UNCHANGED <<pool, conns, db, fs, deployment_log, load_log, trace, lastUow, faults, ncalls>>

\* ---------------------------------------------------- verify_deployment
\* mutant: an object found missing leaves all_verified as it is
Verified_kept(all_verified, exists) == all_verified

\* `if exists: ... else: verification['all_verified'] = False`
Verified(all_verified, exists) == all_verified /\ exists

VerifyFrame ==
    Frame("verify_deployment", "tables",
          [i |-> 1, tables |-> <<>>, functions |-> <<>>, all_verified |-> TRUE])

verify_deployment_step ==
    /\ stack # <<>> /\ stack[1].fn = "verify_deployment"
    /\ LET f == stack[1].loc
           at == stack[1].at IN
       CASE at = "tables" ->
               IF f.i > Len(expected_tables)
               THEN /\ stack' = Goto("functions", [f EXCEPT !.i = 1])
                    /\ UNCHANGED ret
               ELSE /\ stack' = Call2(table_exists(expected_tables[f.i].table,
                                                   expected_tables[f.i].schema),
                                      "exists_ret", f)
                    /\ UNCHANGED ret
         [] at = "exists_ret" ->
               IF ret.val
               THEN /\ stack' = Call2(get_row_count(expected_tables[f.i].table,
                                                    expected_tables[f.i].schema),
                                      "count_ret", f)
                    /\ UNCHANGED ret
               ELSE /\ stack' = Goto("tables",
                           [f EXCEPT !.i = @ + 1, !.all_verified = Verified(@, FALSE),
                                     !.tables = Append(@, [name |-> expected_tables[f.i],
                                                           exists |-> FALSE, row_count |-> 0])])
                    /\ UNCHANGED ret
         [] at = "count_ret" ->
               /\ stack' = Goto("tables",
                      [f EXCEPT !.i = @ + 1, !.all_verified = Verified(@, TRUE),
                                !.tables = Append(@, [name |-> expected_tables[f.i],
                                                      exists |-> TRUE, row_count |-> ret.val])])
               /\ UNCHANGED ret
         [] at = "functions" ->
               IF f.i > Len(expected_functions)
               THEN /\ stack' = Tail(stack)
                    /\ ret' = Ok([tables |-> f.tables, functions |-> f.functions,
                                  all_verified |-> f.all_verified])
               ELSE /\ stack' = Call(GetCursorFrame(FALSE, FALSE,
                                        <<QueryStmt("func_exists", expected_functions[f.i], "index")>>),
                                     "function_ret", f)
                    /\ UNCHANGED ret
         [] at = "function_ret" ->
               LET exists == IF ret.exc THEN FALSE ELSE ret.val IN
               /\ stack' = Goto("functions",
                      [f EXCEPT !.i = @ + 1,
                                !.all_verified = Verified(@, exists),
                                !.functions = Append(@, [name |-> expected_functions[f.i],
                                                         exists |-> exists])])
               /\ UNCHANGED ret
    /\ UNCHANGED <<pool, conns, db, fs, deployment_log, load_log, trace, lastUow, faults, ncalls>>

\* -------------------------------------------------------------- DataLoader
Mapped(csv) == { i \in 1 .. Len(CSV_TABLE_MAPPING) : CSV_TABLE_MAPPING[i].csv = csv }
Destination(csv) ==
    LET m == CSV_TABLE_MAPPING[CHOOSE i \in Mapped(csv) : TRUE] IN Qual(m.schema, m.table)

Min(a, b) == IF a < b THEN a ELSE b

\* the file system answers whether the CSV file exists and, when it does,
\* how many data rows follow its header
SeesCsv(csv, e, n) ==
    /\ Answers(fs.csv[csv], e)
    /\ IF fs.csv[csv] = "unknown"
       THEN \E p \in BOOLEAN :
               /\ e \/ p
               /\ fs' = [fs EXCEPT !.csv[csv] = Seen(e), !.rows[csv] = IF e THEN n ELSE 0,
                                   !.positional[csv] = p]
       ELSE n = fs.rows[csv] /\ fs' = fs

\* _load_csv_with_copy: one scoped cursor use around copy_expert
LoadCsvWithCopy(csv, t) ==
    << GetCursorFrame(FALSE, FALSE, <<CopyStmt(t, fs.rows[csv], fs.positional[csv])>>),
       Frame("_load_csv_with_copy", "ret", [csv |-> csv]) >>

_load_csv_with_copy_ret ==
    /\ Running("_load_csv_with_copy", "ret")
    /\ stack' = Tail(stack)
    /\ UNCHANGED <<ret, pool, conns, db, fs, deployment_log, load_log, trace, lastUow, faults, ncalls>>

\* mutant: the header line is read as a row of data
LoadCsvWithInsert_header(csv, t) ==
    Frame("_load_csv_with_insert", "loop",
          [csv |-> csv, table |-> t, left |-> fs.rows[csv] + 1, batch |-> 0, total_rows |-> 0])

\* _load_csv_with_insert: the rows of the file in batches of batch_size,
\* each batch in a scoped cursor use of its own (_insert_batch)
LoadCsvWithInsert(csv, t) ==
    Frame("_load_csv_with_insert", "loop",
          [csv |-> csv, table |-> t, left |-> fs.rows[csv], batch |-> 0, total_rows |-> 0])

_insert_batch(t, n) ==
    GetCursorFrame(FALSE, FALSE, [k \in 1 .. n |-> InsertStmt(t)])

\* mutant: the count is overwritten by the size of the last batch
Counted_last(total_rows, batch) == batch

\* total_rows += len(batch)
Counted(total_rows, batch) == total_rows + batch

_load_csv_with_insert_step ==
    /\ stack # <<>> /\ stack[1].fn = "_load_csv_with_insert"
    /\ LET f == stack[1].loc
           at == stack[1].at IN
       CASE at = "loop" ->
               IF f.left = 0
               THEN /\ stack' = Tail(stack)
                    /\ ret' = Ok(f.total_rows)
               ELSE LET n == Min(BatchSize, f.left) IN
                    /\ stack' = Call(_insert_batch(f.table, n), "batch_ret",
                                     [f EXCEPT !.batch = n])
                    /\ UNCHANGED ret
         [] at = "batch_ret" ->
               IF ret.exc
               THEN /\ stack' = Tail(stack)
                    /\ UNCHANGED ret
               ELSE /\ stack' = Goto("loop", [f EXCEPT !.total_rows = Counted(@, f.batch),
                                                       !.left = @ - f.batch])
                    /\ UNCHANGED ret
    /\ UNCHANGED <<pool, conns, db, fs, deployment_log, load_log, trace, lastUow, faults, ncalls>>

LoadCsvFrame(csv, use_copy) ==
    Frame("load_csv", "start", [csv |-> csv, use_copy |-> use_copy])

\* mutant: the except clause re-raises without logging the result
LoadFailed_unlogged(csv, error) ==
    /\ load_log' = load_log
    /\ stack' = Tail(stack)
    /\ ret' = Err(error)

\* load_csv: the except clause appends the failed result and re-raises
LoadFailed(csv, error) ==
    /\ load_log' = Logged(load_log, [csv_file |-> csv, status |-> "failed",
                                     error |-> error, rows_loaded |-> 0])
    /\ stack' = Tail(stack)
    /\ ret' = Err(error)

LoadSucceeded(csv, row_count) ==
    LET result == [csv_file |-> csv, status |-> "success", error |-> "",
                   rows_loaded |-> row_count] IN
    /\ load_log' = Logged(load_log, result)
    /\ stack' = Tail(stack)
    /\ ret' = Ok(result)

\* mutant: a failed batched insert is tried again
load_csv_insert_retry(f) ==
    IF ret.exc
    THEN /\ stack' = Call(LoadCsvWithInsert(f.csv, Destination(f.csv)), "insert_ret", f)
         /\ trace' = trace \o <<Event("insert_failed", f.csv), Event("insert_path", f.csv)>>
         /\ UNCHANGED <<ret, load_log>>
    ELSE /\ LoadSucceeded(f.csv, ret.val)
         /\ trace' = Append(trace, Event("load_result", f.csv))

\* back from _load_csv_with_insert, the only or the fallback path
load_csv_insert_ret(f) ==
    IF ret.exc
    THEN /\ LoadFailed(f.csv, ret.err)
         /\ trace' = trace \o <<Event("insert_failed", f.csv),
                                 Outcome("load_result", f.csv, FALSE)>>
    ELSE /\ LoadSucceeded(f.csv, ret.val)
         /\ trace' = Append(trace, Event("load_result", f.csv))

\* the event of a call of load_csv
Started(f) == Event("load_csv", [csv |-> f.csv, use_copy |-> f.use_copy])

\* the load itself: the bulk path or, with use_copy=false, the batched insert
LoadData(f) ==
    IF f.use_copy
    THEN /\ stack' = Call2(LoadCsvWithCopy(f.csv, Destination(f.csv)), "copy_ret", f)
         /\ trace' = Append(trace, Event("bulk_path", f.csv))
         /\ UNCHANGED <<ret, load_log>>
    ELSE /\ stack' = Call(LoadCsvWithInsert(f.csv, Destination(f.csv)), "insert_ret", f)
         /\ trace' = Append(trace, Event("insert_path", f.csv))
         /\ UNCHANGED <<ret, load_log>>

\* mutant: the answer of table_exists is not looked at
load_csv_exists_ret_unchecked(f) == LoadData(f)

\* back from table_exists: `if not ...: raise ValueError`, else the load
load_csv_exists_ret(f) ==
    IF ~ret.val
    THEN /\ LoadFailed(f.csv, "Table does not exist")
         /\ trace' = Append(trace, Outcome("load_result", f.csv, FALSE))
    ELSE LoadData(f)

load_csv_step ==
    /\ stack # <<>> /\ stack[1].fn = "load_csv"
    /\ LET f == stack[1].loc
           at == stack[1].at IN
       CASE at = "start" ->
               IF Mapped(f.csv) = {}
               THEN /\ LoadFailed(f.csv, "No table mapping found")
                    /\ trace' = trace \o <<Started(f), Outcome("load_result", f.csv, FALSE)>>
                    /\ UNCHANGED fs
               ELSE \E e \in BOOLEAN, n \in 0 .. MaxRows :
                       /\ SeesCsv(f.csv, e, n)
                       /\ IF ~e
                          THEN /\ LoadFailed(f.csv, "CSV file not found")
                               /\ trace' = trace \o <<Started(f),
                                                       Outcome("load_result", f.csv, FALSE)>>
                          ELSE /\ stack' = Call2(table_exists(Destination(f.csv).table,
                                                              Destination(f.csv).schema),
                                                 "exists_ret", f)
                               /\ trace' = Append(trace, Started(f))
                               /\ UNCHANGED <<ret, load_log>>
         [] at = "exists_ret" ->
               /\ load_csv_exists_ret(f)
               /\ UNCHANGED fs
         [] at = "copy_ret" ->
               /\ IF ret.exc
                  THEN \* COPY failed, falling back to INSERT
                       /\ stack' = Call(LoadCsvWithInsert(f.csv, Destination(f.csv)), "insert_ret", f)
                       /\ trace' = trace \o <<Event("bulk_failed", f.csv),
                                               Event("insert_path", f.csv)>>
                       /\ UNCHANGED <<ret, load_log>>
                  ELSE /\ LoadSucceeded(f.csv, ret.val)
                       /\ trace' = Append(trace, Event("load_result", f.csv))
               /\ UNCHANGED fs
         [] at = "insert_ret" ->
               /\ load_csv_insert_ret(f)
               /\ UNCHANGED fs
    /\ UNCHANGED <<pool, conns, db, deployment_log, lastUow, faults, ncalls>>

LoadAllFrame(use_copy) ==
    Frame("load_all_csvs", "loop",
          [i |-> 1, use_copy |-> use_copy, results |-> <<>>, total_rows |-> 0])

\* mutant: a failed load is skipped and the iteration goes on
load_all_csvs_load_ret_continue(f) ==
    /\ stack' = Goto("loop", [f EXCEPT !.i = @ + 1,
                                       !.results = IF ret.exc THEN @ ELSE Append(@, ret.val),
                                       !.total_rows = IF ret.exc THEN @ ELSE @ + ret.val.rows_loaded])
    /\ UNCHANGED ret

\* back from load_csv: a raised error leaves the loop for the except clause,
\* which returns the failed summary; else the result is kept
load_all_csvs_load_ret(f) ==
    IF ret.exc
    THEN /\ stack' = Tail(stack)
         /\ ret' = Ok([status |-> "failed", error |-> ret.err,
                       files_loaded |-> 0, total_rows |-> 0,
                       load_log |-> load_log])
    ELSE /\ stack' = Goto("loop", [f EXCEPT !.i = @ + 1,
                                            !.results = Append(@, ret.val),
                                            !.total_rows = @ + ret.val.rows_loaded])
         /\ UNCHANGED ret

load_all_csvs_step ==
    /\ stack # <<>> /\ stack[1].fn = "load_all_csvs"
    /\ LET f == stack[1].loc
           at == stack[1].at IN
       CASE at = "loop" ->
               IF f.i > Len(CSV_TABLE_MAPPING)
               THEN /\ stack' = Tail(stack)
                    /\ ret' = Ok([status |-> "success", error |-> "",
                                  files_loaded |-> Len(f.results),
                                  total_rows |-> f.total_rows, load_log |-> load_log])
                    /\ UNCHANGED fs
               ELSE \E e \in BOOLEAN, n \in 0 .. MaxRows :
                       /\ SeesCsv(CSV_TABLE_MAPPING[f.i].csv, e, n)
                       /\ IF ~e
                          THEN stack' = Goto("loop", [f EXCEPT !.i = @ + 1])
                          ELSE stack' = Call(LoadCsvFrame(CSV_TABLE_MAPPING[f.i].csv, f.use_copy),
                                             "load_ret", f)
                       /\ UNCHANGED ret
         [] at = "load_ret" ->
               /\ load_all_csvs_load_ret(f)
               /\ UNCHANGED fs
    /\ UNCHANGED <<pool, conns, db, deployment_log, load_log, trace, lastUow, faults, ncalls>>

PipelineFrame == Frame("run_data_pipeline", "start", [load_summary |-> 0])

PipelineFailed(error) ==
    [status |-> "failed", error |-> error, has_load_summary |-> FALSE,
     csv_load_summary |-> 0, statistics |-> "none"]

\* mutant: the status of the load summary is not looked at
run_data_pipeline_load_ret_unchecked(f) ==
    /\ stack' = Call(GetCursorFrame(FALSE, FALSE,
                         <<CallStmt("run_unified_member_pipeline")>>),
                     "member_ret", [f EXCEPT !.load_summary = ret.val])
    /\ UNCHANGED ret

\* back from load_all_csvs: `if load_summary['status'] != 'success': raise`,
\* else Step 2, the reconciliation procedure
run_data_pipeline_load_ret(f) ==
    IF ret.val.status # "success"
    THEN /\ stack' = Tail(stack)
         /\ ret' = Ok(PipelineFailed("CSV loading failed"))
    ELSE /\ stack' = Call(GetCursorFrame(FALSE, FALSE,
                              <<CallStmt("run_unified_member_pipeline")>>),
                          "member_ret", [f EXCEPT !.load_summary = ret.val])
         /\ UNCHANGED ret

\* mutant: the merge procedure is called whatever the reconciliation did
run_data_pipeline_member_ret_unchecked(f) ==
    /\ stack' = Call(GetCursorFrame(FALSE, FALSE,
                         <<CallStmt("run_unified_merge_batch")>>),
                     "merge_ret", f)
    /\ UNCHANGED ret

\* back from the reconciliation procedure: a raised error leaves the try
\* block, else Step 3, the merge procedure
run_data_pipeline_member_ret(f) ==
    IF ret.exc
    THEN /\ stack' = Tail(stack)
         /\ ret' = Ok(PipelineFailed(ret.err))
    ELSE /\ stack' = Call(GetCursorFrame(FALSE, FALSE,
                              <<CallStmt("run_unified_merge_batch")>>),
                          "merge_ret", f)
         /\ UNCHANGED ret

\* mutant: empty statistics make the pipeline fail
run_data_pipeline_stats_ret_checked(f) ==
    IF ret.val = "empty"
    THEN Ok(PipelineFailed("statistics"))
    ELSE Ok([status |-> "success", error |-> "", has_load_summary |-> TRUE,
             csv_load_summary |-> f.load_summary, statistics |-> ret.val])

\* back from _get_pipeline_stats: the success summary, whatever was read
run_data_pipeline_stats_ret(f) ==
    Ok([status |-> "success", error |-> "", has_load_summary |-> TRUE,
        csv_load_summary |-> f.load_summary, statistics |-> ret.val])

run_data_pipeline_step ==
    /\ stack # <<>> /\ stack[1].fn = "run_data_pipeline"
    /\ LET f == stack[1].loc
           at == stack[1].at IN
       CASE at = "start" ->
               /\ stack' = Call(LoadAllFrame(TRUE), "load_ret", f)
               /\ trace' = Append(trace, Event("load_all_csvs", "run_data_pipeline"))
               /\ UNCHANGED ret
         [] at = "load_ret" ->
               /\ run_data_pipeline_load_ret(f)
               /\ UNCHANGED trace
         [] at = "member_ret" ->
               /\ run_data_pipeline_member_ret(f)
               /\ UNCHANGED trace
         [] at = "merge_ret" ->
               /\ IF ret.exc
                  THEN /\ stack' = Tail(stack)
                       /\ ret' = Ok(PipelineFailed(ret.err))
                  ELSE /\ stack' = Call2(_get_pipeline_stats, "stats_ret", f)
                       /\ UNCHANGED ret
               /\ UNCHANGED trace
         [] at = "stats_ret" ->
               /\ stack' = Tail(stack)
               /\ ret' = run_data_pipeline_stats_ret(f)
               /\ UNCHANGED trace
    /\ UNCHANGED <<pool, conns, db, fs, deployment_log, load_log, lastUow, faults, ncalls>>

\* ----------------------------------------------------- deploy_database
DeployDatabaseFrame(force_recreate, enable_rls, load_data, run_pipeline, verify) ==
    Frame("deploy_database", "start",
          [force_recreate |-> force_recreate, enable_rls |-> enable_rls,
           load_data |-> load_data, run_pipeline |-> run_pipeline, verify |-> verify,
           has_db_manager |-> FALSE,
           report |-> [keys |-> {"deployment_id", "start_time", "configuration"},
                       configuration |-> [force_recreate |-> force_recreate,
                                          enable_rls |-> enable_rls,
                                          load_data |-> load_data,
                                          run_pipeline |-> run_pipeline,
                                          verify |-> verify],
                       status |-> "", error |-> "", database_info |-> "none",
                       sql_deployment |-> 0, verification |-> 0,
                       data_pipeline |-> 0, data_load |-> 0]])

\* mutant: the error field is written on the success path as well
Finalized_with_error(report, status, error) ==
    [report EXCEPT !.keys = @ \cup {"end_time", "total_duration_seconds", "status", "error"},
                   !.status = status, !.error = error]

\* the four fields both exits write: end_time, total_duration_seconds,
\* status, and error in the except clause only
Finalized(report, status, error) ==
    [report EXCEPT !.keys = @ \cup {"end_time", "total_duration_seconds", "status"}
                                \cup (IF status = "failed" THEN {"error"} ELSE {}),
                   !.status = status, !.error = error]

\* mutant: the except clause stamps the report as a success
Fails_as_success(f, error) ==
    Goto("finally", [f EXCEPT !.report = Finalized(@, "success", "")])

\* except Exception as e: the report is stamped failed with str(e)
Fails(f, error) == Goto("finally", [f EXCEPT !.report = Finalized(@, "failed", error)])
\* the end of the try block
Succeeds(f) == Goto("finally", [f EXCEPT !.report = Finalized(@, "success", "")])

With(report, key, val) ==
    [report EXCEPT !.keys = @ \cup {key},
                   !.database_info = IF key = "database_info" THEN val ELSE @,
                   !.sql_deployment = IF key = "sql_deployment" THEN val ELSE @,
                   !.verification = IF key = "verification" THEN val ELSE @,
                   !.data_pipeline = IF key = "data_pipeline" THEN val ELSE @,
                   !.data_load = IF key = "data_load" THEN val ELSE @]

\* mutant: Step 3 does not look at load_data
DataStage_always(f) ==
    IF f.run_pipeline
    THEN /\ stack' = Call(PipelineFrame, "pipeline_ret", f)
         /\ trace' = Append(trace, Event("stage", "data_pipeline"))
    ELSE /\ stack' = Call(LoadAllFrame(TRUE), "load_ret", f)
         /\ trace' = Append(trace, Event("stage", "data_load"))

\* Step 3 of deploy_database, or the end of the run when no data is loaded
DataStage(f) ==
    IF f.load_data
    THEN IF f.run_pipeline
         THEN /\ stack' = Call(PipelineFrame, "pipeline_ret", f)
              /\ trace' = Append(trace, Event("stage", "data_pipeline"))
         ELSE /\ stack' = Call(LoadAllFrame(TRUE), "load_ret", f)
              /\ trace' = Append(trace, Event("stage", "data_load"))
    ELSE /\ stack' = Succeeds(f)
         /\ UNCHANGED trace

\* mutant: an incomplete verification is raised as an error
deploy_database_verify_ret_raising(f) ==
    LET g == [f EXCEPT !.report = With(@, "verification", ret.val)] IN
    IF ~ret.val.all_verified
    THEN /\ stack' = Fails(g, "Deployment verification failed")
         /\ UNCHANGED trace
    ELSE DataStage(g)

\* back from verify_deployment: the report is stored, an incomplete
\* verification is only logged as a warning, then Step 3
deploy_database_verify_ret(f) ==
    DataStage([f EXCEPT !.report = With(@, "verification", ret.val)])

\* mutant: the validation accepts an environment without the variable
validate_required_vars_always(set) == TRUE

\* ConfigManager.validate_required_vars(['DATABASE_URL']); set: os.getenv
\* finds the variable once ConfigManager() has loaded the .env file
validate_required_vars(set) == set

\* mutant: the status of the load summary is not looked at
deploy_database_load_ret_unchecked(f) ==
    Succeeds([f EXCEPT !.report = With(@, "data_load", ret.val)])

\* back from load_all_csvs ("Just load CSVs"): the summary is stored and a
\* status other than 'success' is raised as "Data loading failed"
deploy_database_load_ret(f) ==
    LET g == [f EXCEPT !.report = With(@, "data_load", ret.val)] IN
    IF ret.val.status # "success"
    THEN Fails(g, "Data loading failed")
    ELSE Succeeds(g)

deploy_database_start ==
    /\ Running("deploy_database", "start")
    /\ LET f == stack[1].loc IN
       \E e \in BOOLEAN :
          /\ Answers(fs.database_url, e)
          /\ fs' = [fs EXCEPT !.database_url = Seen(e)]
          /\ IF ~validate_required_vars(e)
             THEN /\ stack' = Fails(f, "Missing required environment variables")
                  /\ UNCHANGED <<pool, conns, faults>>
             ELSE /\ DatabaseManager_init
                  /\ IF pool'.status = "open"
                     THEN stack' = Call2(test_connection, "test_ret",
                                         [f EXCEPT !.has_db_manager = TRUE])
                     ELSE stack' = Fails(f, "connection failed")
    /\ UNCHANGED <<ret, db, deployment_log, load_log, trace, lastUow, ncalls>>

deploy_database_step ==
    /\ stack # <<>> /\ stack[1].fn = "deploy_database"
    /\ stack[1].at \notin {"start", "finally"}
    /\ LET f == stack[1].loc
           at == stack[1].at IN
       CASE at = "test_ret" ->
               /\ IF ~ret.val
                  THEN stack' = Fails(f, "Database connection test failed")
                  ELSE stack' = Call2(get_database_info, "info_ret", f)
               /\ UNCHANGED <<fs, trace>>
         [] at = "info_ret" ->
               \* SQLDeployer(db_manager, sql_base_path), DataLoader(db_manager,
               \* csv_base_path), then Step 1
               \E e1 \in BOOLEAN, e2 \in BOOLEAN :
                  LET g == [f EXCEPT !.report = With(@, "database_info", ret.val)] IN
                  /\ Answers(fs.sql_dir, e1)
                  /\ IF e1 THEN Answers(fs.csv_dir, e2) ELSE e2
                  /\ fs' = [fs EXCEPT !.sql_dir = Seen(e1),
                                      !.csv_dir = IF e1 THEN Seen(e2) ELSE @]
                  /\ IF ~e1 THEN /\ stack' = Fails(g, "SQL base path not found")
                                 /\ UNCHANGED trace
                     ELSE IF ~e2 THEN /\ stack' = Fails(g, "CSV base path not found")
                                      /\ UNCHANGED trace
                     ELSE /\ stack' = Call(DeployAllFrame(f.force_recreate, f.enable_rls),
                                           "sql_ret", g)
                          /\ trace' = Append(trace, Event("stage", "sql_deployment"))
         [] at = "sql_ret" ->
               LET g == [f EXCEPT !.report = With(@, "sql_deployment", ret.val)] IN
               /\ IF ret.val.status # "success"
                  THEN /\ stack' = Fails(g, "SQL deployment failed")
                       /\ UNCHANGED trace
                  ELSE IF f.verify
                  THEN /\ stack' = Call(VerifyFrame, "verify_ret", g)
                       /\ trace' = Append(trace, Event("stage", "verification"))
                  ELSE DataStage(g)
               /\ UNCHANGED fs
         [] at = "verify_ret" ->
               /\ deploy_database_verify_ret(f)
               /\ UNCHANGED fs
         [] at = "pipeline_ret" ->
               LET g == [f EXCEPT !.report = With(@, "data_pipeline", ret.val)] IN
               /\ IF ret.val.status # "success"
                  THEN stack' = Fails(g, "Data pipeline failed")
                  ELSE stack' = Succeeds(g)
               /\ UNCHANGED <<fs, trace>>
         [] at = "load_ret" ->
               /\ stack' = deploy_database_load_ret(f)
               /\ UNCHANGED <<fs, trace>>
    /\ UNCHANGED <<ret, pool, conns, db, deployment_log, load_log, lastUow, faults, ncalls>>

\* finally: `if 'db_manager' in locals(): db_manager.close()`, then the
\* report is returned
deploy_database_finally ==
    /\ Running("deploy_database", "finally")
    /\ LET f == stack[1].loc IN
       /\ IF f.has_db_manager
          THEN /\ pool' = closeall(pool)
               /\ conns' = AfterCloseall(pool', conns)
               /\ trace' = Append(trace, Event("close", "pool"))
          ELSE UNCHANGED <<pool, conns, trace>>
       /\ stack' = Tail(stack)
       /\ ret' = Ok(f.report)
    /\ UNCHANGED <<db, fs, deployment_log, load_log, lastUow, faults, ncalls>>

\* ------------------------------------------------------- deploy.py main
MainFrame(mode, force_recreate, no_rls, no_verify, no_pipeline) ==
    Frame("main", "start",
          [mode |-> mode, force_recreate |-> force_recreate, no_rls |-> no_rls,
           no_verify |-> no_verify, no_pipeline |-> no_pipeline])

\* "Determine deployment parameters"
Parameters(a) ==
    IF a.mode \in {"full", "default"}
    THEN DeployDatabaseFrame(a.force_recreate, ~a.no_rls, TRUE, ~a.no_pipeline, ~a.no_verify)
    ELSE IF a.mode = "ddl_only"
    THEN DeployDatabaseFrame(a.force_recreate, ~a.no_rls, FALSE, FALSE, ~a.no_verify)
    ELSE DeployDatabaseFrame(FALSE, FALSE, TRUE, ~a.no_pipeline, FALSE)

\* mutant: the process always exits with code 0
ExitCode_zero(report) == 0

\* `if report['status'] == 'success': sys.exit(0) else: sys.exit(1)`
ExitCode(report) == IF report.status = "success" THEN 0 ELSE 1

main_step ==
    /\ stack # <<>> /\ stack[1].fn = "main"
    /\ LET f == stack[1].loc IN
       IF stack[1].at = "start"
       THEN \* the options are not read again once the parameters are determined
            /\ stack' = Call(Parameters(f), "report_ret", [mode |-> f.mode])
            /\ UNCHANGED <<ret, trace>>
       ELSE \* save_deployment_report, then sys.exit
            /\ trace' = Append(trace, Event("save_report", ret.val.status))
            /\ stack' = Tail(stack)
            /\ ret' = Ok([exit_code |-> ExitCode(ret.val), report |-> ret.val])
    /\ UNCHANGED <<pool, conns, db, fs, deployment_log, load_log, lastUow, faults, ncalls>>

\* ------------------------------------------------------- run_pipeline.py
Member == Qual("public", "unified_company_member")

\* run_member_pipeline / run_merge_batch: the procedure call in one scoped
\* cursor use, the read-back in a second one, inside one try/except
ProcedureFrame(fn) == Frame(fn, "start", [x |-> 0])

ReadBack(fn) ==
    IF fn = "run_member_pipeline"
    THEN GetCursorFrame(FALSE, FALSE, << QueryStmt("member_counts", Member, "index"),
                                         QueryStmt("count", Member, "index") >>)
    ELSE GetCursorFrame(TRUE, FALSE, << QueryStmt("stats", 0, "key"),
                                        QueryStmt("merge_log", 0, "key") >>)

ProcedureOf(fn) ==
    IF fn = "run_member_pipeline" THEN "run_unified_member_pipeline"
    ELSE "run_unified_merge_batch"

procedure_step(fn) ==
    /\ stack # <<>> /\ stack[1].fn = fn
    /\ LET f == stack[1].loc
           at == stack[1].at IN
       CASE at = "start" ->
               /\ stack' = Call(GetCursorFrame(FALSE, FALSE, <<CallStmt(ProcedureOf(fn))>>),
                                "call_ret", f)
               /\ UNCHANGED ret
         [] at = "call_ret" ->
               IF ret.exc
               THEN /\ stack' = Tail(stack)
                    /\ ret' = Ok([status |-> "failed", error |-> ret.err])
               ELSE /\ stack' = Call(ReadBack(fn), "read_ret", f)
                    /\ UNCHANGED ret
         [] at = "read_ret" ->
               /\ stack' = Tail(stack)
               /\ ret' = IF ret.exc THEN Ok([status |-> "failed", error |-> ret.err])
                         ELSE Ok([status |-> "success", error |-> ""])
    /\ UNCHANGED <<pool, conns, db, fs, deployment_log, load_log, trace, lastUow, faults, ncalls>>

PipelineMainFrame(member_only, merge_only) ==
    Frame("run_pipeline_main", "start",
          [member_only |-> member_only, merge_only |-> merge_only, has_db_manager |-> FALSE])

run_pipeline_main_start ==
    /\ Running("run_pipeline_main", "start")
    /\ LET f == stack[1].loc IN
       \E e \in BOOLEAN :
          /\ Answers(fs.database_url, e)
          /\ fs' = [fs EXCEPT !.database_url = Seen(e)]
          /\ IF ~e
             THEN /\ stack' = Goto("finally", f)
                  /\ ret' = Ok(1)
                  /\ UNCHANGED <<pool, conns, faults>>
             ELSE /\ DatabaseManager_init
                  /\ IF pool'.status = "open"
                     THEN /\ stack' = Call2(test_connection, "test_ret",
                                            [f EXCEPT !.has_db_manager = TRUE])
                          /\ UNCHANGED ret
                     ELSE /\ stack' = Goto("finally", f)
                          /\ ret' = Ok(1)
    /\ UNCHANGED <<db, deployment_log, load_log, trace, lastUow, ncalls>>

Code(result) == IF result.status = "success" THEN 0 ELSE 1

run_pipeline_main_step ==
    /\ stack # <<>> /\ stack[1].fn = "run_pipeline_main"
    /\ stack[1].at \notin {"start", "finally"}
    /\ LET f == stack[1].loc
           at == stack[1].at IN
       CASE at = "test_ret" ->
               IF ~ret.val
               THEN /\ stack' = Goto("finally", f)
                    /\ ret' = Ok(1)
               ELSE IF f.merge_only
               THEN /\ stack' = Call(ProcedureFrame("run_merge_batch"), "last_ret", f)
                    /\ UNCHANGED ret
               ELSE IF f.member_only
               THEN /\ stack' = Call(ProcedureFrame("run_member_pipeline"), "last_ret", f)
                    /\ UNCHANGED ret
               ELSE /\ stack' = Call(ProcedureFrame("run_member_pipeline"), "member_ret", f)
                    /\ UNCHANGED ret
         [] at = "member_ret" ->
               IF ret.val.status = "success"
               THEN /\ stack' = Call(ProcedureFrame("run_merge_batch"), "last_ret", f)
                    /\ UNCHANGED ret
               ELSE /\ stack' = Goto("finally", f)
                    /\ ret' = Ok(1)
         [] at = "last_ret" ->
               /\ stack' = Goto("finally", f)
               /\ ret' = Ok(Code(ret.val))
    /\ UNCHANGED <<pool, conns, db, fs, deployment_log, load_log, trace, lastUow, faults, ncalls>>

\* finally: `if 'db_manager' in locals(): db_manager.close()`; ret holds the
\* exit code
run_pipeline_main_finally ==
    /\ Running("run_pipeline_main", "finally")
    /\ IF stack[1].loc.has_db_manager
       THEN /\ pool' = closeall(pool)
            /\ conns' = AfterCloseall(pool', conns)
            /\ trace' = Append(trace, Event("close", "pool"))
       ELSE UNCHANGED <<pool, conns, trace>>
    /\ stack' = Tail(stack)
    /\ UNCHANGED <<ret, db, fs, deployment_log, load_log, lastUow, faults, ncalls>>

\* ------------------------------------------------------------------- Init
DeployedDb ==
    [EmptyDb EXCEPT !.tables = AllTables, !.funcs = Range(expected_functions),
                    !.triggers = TRUE]

Init ==
    /\ stack = <<>>
    /\ ret = Ok(0)
    /\ pool = [status |-> "none", idle |-> <<>>, used |-> {}]
    /\ conns = [c \in ConnId |-> NoConn]
    /\ db \in {EmptyDb, DeployedDb}
    /\ fs = UnknownFs
    /\ deployment_log = <<>>
    /\ load_log = <<>>
    /\ trace = <<>>
    /\ lastUow = NoUow
    /\ faults = 0
    /\ ncalls = 0

\* ------------------------------------------------------------- the callers
\* Entry points.  A process runs deploy.py, run_pipeline.py or calls
\* deploy_database; a caller of the library constructs a DatabaseManager and
\* makes up to MaxCalls calls on it, or one call on the SQLDeployer or the
\* DataLoader built over it, after an earlier scoped use or none.
Fresh == stack = <<>> /\ pool.status = "none" /\ ncalls = 0
Idle == stack = <<>> /\ pool.status = "open" /\ ncalls < MaxCalls
LibIdle == stack = <<>> /\ pool.status = "open" /\ ncalls = 0

Enter(frames, name) ==
    /\ stack' = frames
    /\ trace' = Append(trace, Event("call", name))
    /\ ncalls' = ncalls + 1
    /\ UNCHANGED <<ret, pool, conns, db, fs, deployment_log, load_log, lastUow, faults>>

run_main ==
    /\ Fresh
    /\ \E mode \in {"full", "ddl_only", "data_only", "default"},
          force_recreate \in BOOLEAN, no_rls \in BOOLEAN,
          no_verify \in BOOLEAN, no_pipeline \in BOOLEAN :
          Enter(<<MainFrame(mode, force_recreate, no_rls, no_verify, no_pipeline)>>, "main")

call_deploy_database ==
    /\ Fresh
    /\ \E force_recreate \in BOOLEAN, enable_rls \in BOOLEAN, load_data \in BOOLEAN,
          run_pipeline \in BOOLEAN, verify \in BOOLEAN :
          Enter(<<DeployDatabaseFrame(force_recreate, enable_rls, load_data,
                                      run_pipeline, verify)>>, "deploy_database")

run_pipeline_script ==
    /\ Fresh
    /\ \E member_only \in BOOLEAN, merge_only \in BOOLEAN :
          Enter(<<PipelineMainFrame(member_only, merge_only)>>, "run_pipeline_main")

new_DatabaseManager ==
    /\ Fresh
    /\ DatabaseManager_init
    /\ UNCHANGED <<stack, ret, db, fs, deployment_log, load_log, trace, lastUow, ncalls>>

NewAgents == Qual("public", "new_agents")

\* bodies of with-blocks a caller may run
UowBodies ==
    { <<>>,
      <<InsertStmt(NewAgents)>>,
      <<InsertStmt(NewAgents), InsertStmt(NewAgents)>>,
      <<QueryStmt("select1", 0, "index")>>,
      <<InsertStmt(NewAgents), QueryStmt("info", 0, "key")>> }

\* with db_manager.get_cursor(dict_cursor, autocommit) as cursor: body
use_get_cursor ==
    /\ Idle
    /\ \E dict_cursor \in BOOLEAN, autocommit \in BOOLEAN, body \in UowBodies :
          Enter(<<GetCursorFrame(dict_cursor, autocommit, body)>>, "get_cursor")

\* with-blocks inside one another, depth of them below the outermost
RECURSIVE Nested(_)
Nested(depth) == IF depth = 0 THEN <<>> ELSE <<WithStmt(Nested(depth - 1))>>

\* a caller that acquires connections while it holds others, up to one
\* more than the pool allows
use_nested ==
    /\ Idle
    /\ \E depth \in 1 .. MaxConn :
          Enter(<<GetCursorFrame(FALSE, FALSE, Nested(depth))>>, "nested")

\* db_manager.close(): `if self.connection_pool: closeall()`
call_close ==
    /\ Idle
    /\ pool' = closeall(pool)
    /\ conns' = AfterCloseall(pool', conns)
    /\ trace' = Append(trace, Event("call", "close"))
    /\ ncalls' = ncalls + 1
    /\ UNCHANGED <<stack, ret, db, fs, deployment_log, load_log, lastUow, faults>>

\* the helpers are also called on a DatabaseManager that was closed
Constructed == stack = <<>> /\ pool.status \in {"open", "closed"} /\ ncalls < MaxCalls

call_helper ==
    /\ Constructed
    /\ \/ Enter(test_connection, "test_connection")
       \/ Enter(get_database_info, "get_database_info")
       \/ \E i \in 1 .. Len(expected_tables) :
             \/ Enter(table_exists(expected_tables[i].table, expected_tables[i].schema),
                      "table_exists")
             \/ Enter(get_row_count(expected_tables[i].table, expected_tables[i].schema),
                      "get_row_count")

\* an earlier scoped use on the DatabaseManager the deployer and the loader
\* are built over: it leaves its session attributes on the pooled connection
earlier_use ==
    /\ stack = <<>> /\ pool.status = "open" /\ ncalls = 0 /\ ~lastUow.done
    /\ \E dict_cursor \in BOOLEAN, autocommit \in BOOLEAN :
          stack' = <<GetCursorFrame(dict_cursor, autocommit, <<>>)>>
    /\ UNCHANGED <<ret, pool, conns, db, fs, deployment_log, load_log, trace,
                   lastUow, faults, ncalls>>

\* a call of verify_deployment; the database and the number of environment
\* failures at the call, and the report of the call before it, are recorded
VerifyCall(again, faults0, report) ==
    /\ stack' = <<VerifyFrame>>
    /\ trace' = trace \o << Event("before", [db |-> db, again |-> again,
                                             faults0 |-> faults0, report |-> report]),
                            Event("call", "verify_deployment") >>
    /\ ncalls' = ncalls + 1
    /\ UNCHANGED <<ret, pool, conns, db, fs, deployment_log, load_log, lastUow, faults>>

\* verify_deployment called a second time, right after the first call
call_verify_again ==
    /\ stack = <<>> /\ pool.status = "open" /\ ncalls = 1
    /\ trace[Len(trace)] = Event("call", "verify_deployment")
    /\ VerifyCall(TRUE, trace[Len(trace) - 1].x.faults0, ret.val)

call_deployer ==
    /\ LibIdle
    /\ \/ \E force_recreate \in BOOLEAN, enable_rls \in BOOLEAN :
             Enter(<<DeployAllFrame(force_recreate, enable_rls)>>, "deploy_all")
       \/ \E force_recreate \in BOOLEAN :
             Enter(<<DeployFrame("deploy_ddl", force_recreate)>>, "deploy_ddl")
       \/ Enter(<<DeployFrame("deploy_functions", FALSE)>>, "deploy_functions")
       \/ Enter(<<DeployFrame("deploy_triggers", FALSE)>>, "deploy_triggers")
       \/ \E enable \in BOOLEAN :
             Enter(<<Frame("deploy_rls", "start", [enable |-> enable])>>, "deploy_rls")
       \/ VerifyCall(FALSE, faults, <<>>)

\* file names _extract_table_name is called with: the scripts of the
\* deployment order, and names with another suffix, another prefix and a
\* token that is not a key of schema_mapping
Filenames ==
    { DEPLOYMENT_ORDER[i].filename : i \in 1 .. Len(DEPLOYMENT_ORDER) }
    \cup {"CREATE_new_agents.SQL", "TABLE_new_agents.sql", "CREATE_audit_log.sql"}

call_extract_table_name ==
    /\ LibIdle
    /\ \E filename \in Filenames :
          /\ trace' = trace \o << Event("before", [filename |-> filename]),
                                  Event("call", "_extract_table_name") >>
          /\ ret' = Ok(_extract_table_name(filename))
    /\ ncalls' = ncalls + 1
    /\ UNCHANGED <<stack, pool, conns, db, fs, deployment_log, load_log, lastUow, faults>>

call_loader ==
    /\ LibIdle
    /\ \/ \E csv \in CsvFiles \cup {"unmapped.csv"}, use_copy \in BOOLEAN :
             Enter(<<LoadCsvFrame(csv, use_copy)>>, "load_csv")
       \/ \E use_copy \in BOOLEAN : Enter(<<LoadAllFrame(use_copy)>>, "load_all_csvs")
       \/ Enter(<<PipelineFrame>>, "run_data_pipeline")

ConnectionManagerStep ==
    \/ get_cursor_getconn
    \/ get_cursor_execute
    \/ get_cursor_commit
    \/ get_cursor_except
    \/ get_cursor_putconn
    \/ \E fn \in Helpers : helper_ret(fn)

DeployerStep ==
    \/ \E fn \in {"deploy_ddl", "deploy_functions", "deploy_triggers"} : deploy_loop(fn)
    \/ \E fn \in {"deploy_ddl", "deploy_functions", "deploy_triggers"} : deploy_exec_ret(fn)
    \/ _execute_sql_script_ret
    \/ deploy_rls_start
    \/ deploy_rls_ret
    \/ deploy_all_step
    \/ verify_deployment_step

LoaderStep ==
    \/ _load_csv_with_copy_ret
    \/ _load_csv_with_insert_step
    \/ load_csv_step
    \/ load_all_csvs_step
    \/ run_data_pipeline_step

\* the connection manager alone
NextCM ==
    \/ new_DatabaseManager
    \/ use_get_cursor
    \/ call_helper
    \/ call_close
    \/ ConnectionManagerStep

SpecCM == Init /\ [][NextCM]_vars

\* the connection manager under callers that hold several connections
NextPool ==
    \/ NextCM
    \/ use_nested
    \/ get_cursor_with
    \/ get_cursor_with_ret

SpecPool == Init /\ [][NextPool]_vars

\* the SQLDeployer and the DataLoader over a DatabaseManager
NextLib ==
    \/ new_DatabaseManager
    \/ earlier_use
    \/ call_deployer
    \/ call_verify_again
    \/ call_extract_table_name
    \/ call_loader
    \/ ConnectionManagerStep
    \/ DeployerStep
    \/ LoaderStep

SpecLib == Init /\ [][NextLib]_vars

\* the processes: deploy.py, deploy_database, run_pipeline.py
Next ==
    \/ run_main
    \/ call_deploy_database
    \/ run_pipeline_script
    \/ main_step
    \/ deploy_database_start
    \/ deploy_database_step
    \/ deploy_database_finally
    \/ \E fn \in {"run_member_pipeline", "run_merge_batch"} : procedure_step(fn)
    \/ run_pipeline_main_start
    \/ run_pipeline_main_step
    \/ run_pipeline_main_finally
    \/ ConnectionManagerStep
    \/ DeployerStep
    \/ LoaderStep

Spec == Init /\ [][Next]_vars

\* ================================================================ claims
Idx == 1 .. Len(trace)
CallIdx == { k \in Idx : trace[k].ev = "call" }
\* the position in the trace of the last call a caller made (0: none yet)
LastCallIdx == IF CallIdx = {} THEN 0 ELSE CHOOSE k \in CallIdx : \A j \in CallIdx : j <= k
LastCall == IF LastCallIdx = 0 THEN "none" ELSE trace[LastCallIdx].x
Recon == "run_unified_member_pipeline"
Merge == "run_unified_merge_batch"

\* C1: fail-fast script execution.  Once a script has failed (its file is
\* missing, or its execution raised), no script is loaded or executed any
\* more in the same call of deploy_all, deploy_ddl, deploy_functions,
\* deploy_triggers or deploy_rls.
FailFast ==
    \A k \in Idx, m \in Idx :
        /\ k < m
        /\ trace[k].ev \in {"missing", "failed"}
        /\ trace[m].ev \in {"load", "missing", "exec"}
        => \E j \in CallIdx : k < j /\ j < m

FailFastWitness ==
    /\ stack = <<>>
    /\ LastCall \in {"deploy_all", "deploy_ddl"}
    /\ \E k \in Idx : trace[k].ev = "failed" /\ trace[k].x = DEPLOYMENT_ORDER[2]

\* C2: the scripts executed by one deploy_all call are, in order, a prefix
\* of the fixed total order; the policy script is executed only when enabled.
ExecIdx == { k \in Idx : k > LastCallIdx /\ trace[k].ev = "exec" }
Nth(S, k) == Cardinality({ j \in S : j <= k })

ExecutedPrefix ==
    LastCall = "deploy_all" =>
        /\ \A k \in ExecIdx :
              /\ Nth(ExecIdx, k) <= Len(FullOrder)
              /\ trace[k].x = FullOrder[Nth(ExecIdx, k)]
        /\ stack # <<>> /\ ~stack[Len(stack)].loc.enable_rls =>
              \A k \in ExecIdx : trace[k].x # RLS_SCRIPT
        /\ stack = <<>> /\ ret.val.status = "success" =>
              Cardinality(ExecIdx) = Len(DEPLOYMENT_ORDER) + (IF ret.val.rls_enabled THEN 1 ELSE 0)

ExecutedPrefixWitness ==
    /\ stack = <<>>
    /\ LastCall = "deploy_all"
    /\ ret.val.status = "success"
    /\ ret.val.rls_enabled
    /\ Cardinality(ExecIdx) = Len(FullOrder)

\* C3: the orchestrator's stages start in the order SQL deployment,
\* verification, data; when deploy_database has finished its try block, the
\* report holds the sub-report of every stage that was started, a failed SQL
\* deployment was followed by neither verification nor data loading, and a
\* failed stage makes the report's status 'failed'.
StageIdx == { k \in Idx : trace[k].ev = "stage" }
Rank(stage) ==
    CASE stage = "sql_deployment" -> 1
      [] stage = "verification" -> 2
      [] OTHER -> 3
SubReport(r, key) ==
    CASE key = "sql_deployment" -> r.sql_deployment
      [] key = "data_pipeline" -> r.data_pipeline
      [] key = "data_load" -> r.data_load
FailingStages(r) ==
    { key \in r.keys \cap {"sql_deployment", "data_pipeline", "data_load"} :
         SubReport(r, key).status # "success" }

\* the report r agrees with the stages that were started
Finished(r) ==
    /\ r.status \in {"success", "failed"}
    /\ \A k \in StageIdx : trace[k].x \in r.keys
    /\ FailingStages(r) # {} => r.status = "failed"
    /\ "sql_deployment" \in FailingStages(r) =>
          \A k \in StageIdx : trace[k].x = "sql_deployment"
    /\ \A key \in FailingStages(r) :
          \A k \in StageIdx : Rank(trace[k].x) <= Rank(key)

StageMachine ==
    /\ \A k \in StageIdx, m \in StageIdx : k < m => Rank(trace[k].x) < Rank(trace[m].x)
    /\ \A i \in DOMAIN stack :
          stack[i].fn = "deploy_database" /\ stack[i].at = "finally" =>
             Finished(stack[i].loc.report)
    /\ stack = <<>> /\ LastCall = "deploy_database" => Finished(ret.val)
    /\ stack = <<>> /\ LastCall = "main" => Finished(ret.val.report)

StageMachineWitness ==
    /\ stack = <<>>
    /\ LastCall = "deploy_database"
    /\ ret.val.status = "failed"
    /\ {"sql_deployment", "verification", "data_pipeline"} \subseteq ret.val.keys
    /\ FailingStages(ret.val) = {"data_pipeline"}

\* C4: when deploy_database has returned and the pool was created, the pool
\* is closed and none of its connections is open.
Returned ==
    /\ LastCall \in {"main", "deploy_database"}
    /\ \A i \in DOMAIN stack : stack[i].fn # "deploy_database"

PoolTeardown ==
    Returned /\ pool.status # "none" =>
        /\ pool.status = "closed"
        /\ pool.used = {}
        /\ \A c \in ConnId : ~conns[c].live

PoolTeardownWitness ==
    /\ stack = <<>>
    /\ LastCall = "deploy_database"
    /\ pool.status = "closed"
    /\ ret.val.status = "failed"
    /\ ret.val.error = "CSV base path not found"

\* C5: checkout/release pairing.  While a scoped use holds its connection
\* exactly that connection is checked out; before it obtained one and after
\* it is over, on every exit path, no connection is checked out.
CheckedOut == Cardinality(pool.used)

ReleasePairing ==
    IF stack # <<>> /\ stack[1].fn = "get_cursor" /\ stack[1].at # "getconn"
    THEN pool.used = {stack[1].loc.conn}
    ELSE CheckedOut = 0

ReleasePairingWitness ==
    /\ stack = <<>>
    /\ lastUow.done /\ lastUow.raised /\ lastUow.nexec = 1
    /\ ncalls = MaxCalls
    /\ CheckedOut = 0

\* C6: transaction discipline.  A unit of work opened with autocommit=False
\* runs inside a transaction, has all its statements committed when its body
\* exits normally and none of them when it raises.
TransactionDiscipline ==
    lastUow.done /\ ~lastUow.autoc =>
        /\ lastUow.nexec > 0 => lastUow.intxn
        /\ lastUow.raised => lastUow.post = lastUow.pre
        /\ ~lastUow.raised => lastUow.post = lastUow.full

\* C7: single fallback in load_csv.  Between the start of a load_csv call
\* and its result the bulk path is attempted at most once and only with
\* use_copy, the batched-insert path at most once and, with use_copy, only
\* after the bulk path failed; a failed batched insert ends the call with a
\* failed result; a successful call with use_copy=false attempted the
\* batched insert exactly once.
LoadStarts == { k \in Idx : trace[k].ev = "load_csv" }
ResultsAfter(k) == { m \in Idx : m > k /\ trace[m].ev = "load_result" }
EndOf(k) ==
    IF ResultsAfter(k) = {} THEN Len(trace) + 1
    ELSE CHOOSE m \in ResultsAfter(k) : \A j \in ResultsAfter(k) : m <= j
Window(k, ev) == { m \in Idx : k < m /\ m < EndOf(k) /\ trace[m].ev = ev }

SingleFallback ==
    \A k \in LoadStarts :
       LET bulk == Window(k, "bulk_path")
           ins == Window(k, "insert_path")
           bulk_failed == Window(k, "bulk_failed")
           insert_failed == Window(k, "insert_failed")
           use_copy == trace[k].x.use_copy
           e == EndOf(k) IN
       /\ Cardinality(bulk) <= 1
       /\ Cardinality(ins) <= 1
       /\ ~use_copy => bulk = {}
       /\ use_copy => \A m \in ins : \E a \in bulk, b \in bulk_failed : a < b /\ b < m
       /\ insert_failed # {} => e <= Len(trace) /\ ~trace[e].ok
       /\ e <= Len(trace) /\ trace[e].ok =>
             IF use_copy THEN Cardinality(bulk) = 1 /\ (ins = {} <=> bulk_failed = {})
             ELSE Cardinality(ins) = 1

SingleFallbackWitness ==
    /\ stack = <<>>
    /\ \E k \in LoadStarts :
          /\ trace[k].x.use_copy
          /\ Window(k, "bulk_failed") # {}
          /\ Window(k, "insert_failed") # {}

\* C8: when the call of the reconciliation procedure fails (the statement,
\* or the commit of its unit of work), the merge procedure is not invoked
\* afterwards in that run.
ReconFailedAt(k) ==
    /\ trace[k].ev = "invoke" /\ trace[k].x = Recon
    /\ \/ ~trace[k].ok
       \/ k < Len(trace) /\ trace[k + 1].ev = "commit"

ReconFailureStopsMerge ==
    \A k \in Idx :
       ReconFailedAt(k) =>
          \A m \in Idx : m > k => ~(trace[m].ev = "invoke" /\ trace[m].x = Merge)

ReconFailureWitness ==
    /\ stack = <<>>
    /\ \E k \in Idx : ReconFailedAt(k)

\* C9: run_data_pipeline makes its steps in the order load_all_csvs,
\* reconciliation, merge, statistics read-back, each at most once; after a
\* failed CSV load no procedure is invoked and no statistics are read; when
\* it returns success all four steps were made and both procedures succeeded.
StepIdx ==
    { k \in Idx : /\ k > LastCallIdx
                  /\ \/ trace[k].ev \in {"load_all_csvs", "invoke"}
                     \/ trace[k].ev = "query" /\ trace[k].x = "stats" }
IsStep(e, n) ==
    CASE n = 1 -> e.ev = "load_all_csvs"
      [] n = 2 -> e.ev = "invoke" /\ e.x = Recon
      [] n = 3 -> e.ev = "invoke" /\ e.x = Merge
      [] n = 4 -> e.ev = "query"
      [] OTHER -> FALSE
LoadFailure == \E k \in Idx : k > LastCallIdx /\ trace[k].ev = "load_result" /\ ~trace[k].ok

PipelineOrder ==
    LastCall = "run_data_pipeline" =>
        /\ \A k \in StepIdx : IsStep(trace[k], Nth(StepIdx, k))
        /\ LoadFailure => Cardinality(StepIdx) <= 1
        /\ stack = <<>> /\ ret.val.status = "success" =>
              /\ Cardinality(StepIdx) = 4
              /\ \A k \in StepIdx : trace[k].ev = "invoke" => trace[k].ok

PipelineOrderWitness ==
    /\ stack = <<>>
    /\ LastCall = "run_data_pipeline"
    /\ ret.val.status = "success"
    /\ load_log # <<>>

PipelineLoadFailureWitness ==
    /\ stack = <<>>
    /\ LastCall = "run_data_pipeline"
    /\ LoadFailure

\* C10: schema-only mode.  In a run of deploy_database with load_data=False,
\* and in a run of deploy.py with --ddl-only, no CSV file is looked at,
\* opened or loaded and no procedure is invoked.
DataEvent(e) ==
    \/ e.ev \in {"load_all_csvs", "load_csv", "bulk_path", "insert_path",
                 "copy", "insert", "invoke"}
    \/ e.ev = "stage" /\ e.x \in {"data_pipeline", "data_load"}
NoDataTouched ==
    /\ \A k \in Idx : ~DataEvent(trace[k])
    /\ \A c \in CsvFiles : fs.csv[c] = "unknown"

SchemaOnly ==
    /\ \A i \in DOMAIN stack :
          \/ stack[i].fn = "deploy_database" /\ ~stack[i].loc.load_data
          \/ stack[i].fn = "main" /\ stack[i].loc.mode = "ddl_only"
          => NoDataTouched
    /\ stack = <<>> /\ LastCall = "deploy_database" /\ ~ret.val.configuration.load_data
          => NoDataTouched

SchemaOnlyWitness ==
    /\ stack = <<>>
    /\ LastCall = "deploy_database"
    /\ ~ret.val.configuration.load_data
    /\ ret.val.configuration.run_pipeline
    /\ ret.val.status = "success"
    /\ "verification" \in ret.val.keys

\* C11: data-only mode.  In a run of deploy.py with --data-only no schema,
\* function, trigger or policy script is executed and no verification is
\* performed.
DataOnly ==
    \A i \in DOMAIN stack :
       stack[i].fn = "main" /\ stack[i].loc.mode = "data_only" =>
          \A k \in Idx :
             /\ trace[k].ev # "exec"
             /\ ~(trace[k].ev = "stage" /\ trace[k].x = "verification")

\* C12: deploy_all never raises; the summary it returns has status 'success'
\* exactly when every script of every enabled phase was executed
\* successfully, and otherwise status 'failed' with the error text and the
\* cumulative deployment log.
Enabled(enable_rls) == IF enable_rls THEN FullOrder ELSE DEPLOYMENT_ORDER
AllSucceeded(order) ==
    /\ Cardinality(ExecIdx) = Len(order)
    /\ \A k \in ExecIdx : trace[k].ok /\ trace[k].x = order[Nth(ExecIdx, k)]
    /\ \A k \in Idx : k > LastCallIdx => trace[k].ev \notin {"missing", "failed"}

SummaryOfDeployAll ==
    stack = <<>> /\ LastCall = "deploy_all" =>
        /\ ~ret.exc
        /\ ret.val.status \in {"success", "failed"}
        /\ ret.val.deployment_log = deployment_log
        /\ ret.val.status = "success" <=>
              \E enable_rls \in BOOLEAN :
                 /\ ret.val.rls_enabled = enable_rls
                 /\ AllSucceeded(Enabled(enable_rls))
        /\ ret.val.status = "failed" =>
              /\ ret.val.error # ""
              /\ deployment_log # <<>> =>
                    ret.val.error = deployment_log[Len(deployment_log)].error
                    \/ \E k \in Idx : k > LastCallIdx /\ trace[k].ev = "missing"

SummaryOfDeployAllWitness ==
    /\ stack = <<>>
    /\ LastCall = "deploy_all"
    /\ ret.val.status = "failed"
    /\ Len(deployment_log) = 3
    /\ deployment_log[3].status = "failed"

\* C13: when a stage of deploy_database fails with message m (a script, a
\* CSV load or a procedure call), the returned report has status 'failed'
\* and its error field carries m.
ErrorIsCause ==
    stack = <<>> /\ LastCall = "deploy_database" =>
        \A key \in FailingStages(ret.val) :
           /\ ret.val.status = "failed"
           /\ ret.val.error = SubReport(ret.val, key).error

\* C14: verify_deployment never raises; the report it returns records the
\* five expected tables and the four expected functions, and its
\* all_verified flag is true exactly when every one of them is recorded as
\* existing.
VerificationReport ==
    stack = <<>> /\ LastCall = "verify_deployment" =>
        /\ ~ret.exc
        /\ Len(ret.val.tables) = Len(expected_tables)
        /\ Len(ret.val.functions) = Len(expected_functions)
        /\ \A i \in 1 .. Len(expected_tables) : ret.val.tables[i].name = expected_tables[i]
        /\ \A i \in 1 .. Len(expected_functions) :
              ret.val.functions[i].name = expected_functions[i]
        /\ ret.val.all_verified <=>
              /\ \A i \in 1 .. Len(expected_tables) : ret.val.tables[i].exists
              /\ \A i \in 1 .. Len(expected_functions) : ret.val.functions[i].exists

VerificationReportWitness ==
    /\ stack = <<>>
    /\ LastCall = "verify_deployment"
    /\ ~ret.val.all_verified
    /\ ret.val.tables[1].exists
    /\ ~ret.val.tables[2].exists
    /\ \A i \in 1 .. Len(expected_functions) : ret.val.functions[i].exists

VerificationAllWitness ==
    /\ stack = <<>>
    /\ LastCall = "verify_deployment"
    /\ ret.val.all_verified

\* C15: verify_deployment is read-only and idempotent.  During and after a
\* call the database is the one the call started with, and a call made
\* right after another one returns the same report when no environment
\* failure occurred in either.
BeforeVerify == trace[LastCallIdx - 1].x

ReadOnlyIdempotent ==
    LastCall = "verify_deployment" =>
        /\ db = BeforeVerify.db
        /\ stack = <<>> /\ BeforeVerify.again /\ faults = BeforeVerify.faults0 =>
              ret.val = BeforeVerify.report

ReadOnlyIdempotentWitness ==
    /\ stack = <<>>
    /\ LastCall = "verify_deployment"
    /\ BeforeVerify.again
    /\ faults = BeforeVerify.faults0
    /\ ret.val = BeforeVerify.report
    /\ ret.val.all_verified
    /\ db = BeforeVerify.db

\* C16: verification gaps are soft.  When deploy_database has returned and
\* its verification report has all_verified = false, the data stage was
\* started if load_data was selected, and the status of the report is
\* 'failed' exactly when the data stage failed.
DataKey(r) == IF r.configuration.run_pipeline THEN "data_pipeline" ELSE "data_load"

SoftVerification ==
    /\ stack = <<>> /\ LastCall = "deploy_database"
    /\ "verification" \in ret.val.keys
    /\ ~ret.val.verification.all_verified
    => /\ ret.val.sql_deployment.status = "success"
       /\ ret.val.configuration.load_data =>
             /\ DataKey(ret.val) \in ret.val.keys
             /\ \E k \in StageIdx : trace[k].x = DataKey(ret.val)
       /\ ret.val.status = IF FailingStages(ret.val) = {} THEN "success" ELSE "failed"
       /\ FailingStages(ret.val) \subseteq {DataKey(ret.val)}

SoftVerificationWitness ==
    /\ stack = <<>> /\ LastCall = "deploy_database"
    /\ "verification" \in ret.val.keys
    /\ ~ret.val.verification.all_verified
    /\ "data_pipeline" \in ret.val.keys
    /\ ret.val.status = "success"

\* C17: load_csv preconditions.  A load path is attempted, and a row is
\* written, only when the file name is a key of the mapping, the file exists
\* and the mapped table exists; when one of the three does not hold,
\* load_csv raises the corresponding error.
Attempted(k) == Window(k, "bulk_path") \cup Window(k, "insert_path")
Written(k) == { m \in Window(k, "copy") \cup Window(k, "insert") : trace[m].ok }
Loadable(csv) ==
    /\ Mapped(csv) # {}
    /\ fs.csv[csv] = "present"
    /\ Destination(csv) \in db.tables

LoadPreconditions ==
    LastCall = "load_csv" =>
       \A k \in LoadStarts :
          LET csv == trace[k].x.csv IN
          /\ Attempted(k) # {} => Loadable(csv)
          /\ Written(k) # {} => Attempted(k) # {}
          /\ Attempted(k) = {} => \A t \in AllTables : db.rows[t] = 0
          /\ stack = <<>> /\ ~Loadable(csv) =>
                /\ ret.exc
                /\ ret.err = IF Mapped(csv) = {} THEN "No table mapping found"
                             ELSE IF fs.csv[csv] # "present" THEN "CSV file not found"
                             ELSE "Table does not exist"
                /\ Attempted(k) = {}

LoadPreconditionsWitness ==
    /\ stack = <<>>
    /\ LastCall = "load_csv"
    /\ trace[LastCallIdx + 1].x.csv = "new_agents.csv"
    /\ fs.csv["new_agents.csv"] = "present"
    /\ fs.rows["new_agents.csv"] > 0
    /\ ret.exc
    /\ ret.err = "Table does not exist"

\* C18: every call of load_csv appends exactly one result to the load log:
\* a 'success' entry with the rows loaded when it returns, a 'failed' entry
\* with the error text when it raises.
ResultIdx == { k \in Idx : trace[k].ev = "load_result" }

OneLogEntry ==
    /\ Len(load_log) = Cardinality(ResultIdx)
    /\ \A k \in ResultIdx :
          LET entry == load_log[Nth(ResultIdx, k)] IN
          /\ entry.csv_file = trace[k].x
          /\ entry.status = IF trace[k].ok THEN "success" ELSE "failed"
    /\ stack = <<>> /\ LastCall = "load_csv" =>
          /\ Len(load_log) = 1
          /\ IF ret.exc
             THEN load_log[1].status = "failed" /\ load_log[1].error = ret.err
             ELSE load_log[1].status = "success" /\ load_log[1] = ret.val

OneLogEntryWitness ==
    /\ stack = <<>>
    /\ LastCall = "load_csv"
    /\ ret.exc
    /\ Window(LastCallIdx + 1, "bulk_failed") # {}
    /\ Window(LastCallIdx + 1, "insert_failed") # {}
    /\ load_log[1].error = "statement failed"

\* C19: load_all_csvs never raises and goes through the mapping in its
\* declared order; a file absent from disk is skipped without a load and
\* without a failure; the first failed load ends the iteration, and the
\* summary then has status 'failed' and the load log up to the failed entry.
LoadsSinceCall == { k \in LoadStarts : k > LastCallIdx }
MappingIndex(csv) == CHOOSE i \in Mapped(csv) : TRUE

LoadAllSkipsWitness ==
    /\ stack = <<>>
    /\ LastCall = "load_all_csvs"
    /\ fs.csv[CSV_TABLE_MAPPING[1].csv] = "absent"
    /\ fs.csv[CSV_TABLE_MAPPING[2].csv] = "present"
    /\ ret.val.status = "success"
    /\ ret.val.files_loaded = 1

\* C20: the rows-loaded count that load_csv reports after the batched-insert
\* path succeeded is the number of data rows of the file, whether the path
\* was the fallback of a failed bulk load (use_copy=true) or the direct load
\* (use_copy=false), and whatever the table held before: the two reported
\* counts are equal.
FallbackCountEqualsDirect ==
    stack = <<>> /\ LastCall = "load_csv" /\ ~ret.exc =>
       LET k == LastCallIdx + 1
           csv == trace[k].x.csv IN
       Window(k, "insert_path") # {} =>
          /\ trace[k].x.use_copy => Window(k, "bulk_failed") # {}
          /\ ret.val.rows_loaded = fs.rows[csv]

FallbackCountWitness ==
    /\ stack = <<>>
    /\ LastCall = "load_csv"
    /\ ~ret.exc
    /\ trace[LastCallIdx + 1].x.use_copy
    /\ Window(LastCallIdx + 1, "bulk_failed") # {}
    /\ ret.val.rows_loaded = MaxRows

DirectCountWitness ==
    /\ stack = <<>>
    /\ LastCall = "load_csv"
    /\ ~ret.exc
    /\ ~trace[LastCallIdx + 1].x.use_copy
    /\ ret.val.rows_loaded = MaxRows

\* C21: with force_recreate=true a schema script whose file name resolves
\* to a table is executed with exactly one DROP TABLE IF EXISTS of the table
\* it creates in front of its content; a file name with another prefix,
\* another suffix or an unknown token resolves to no table, and its script
\* is executed as it is; with force_recreate=false, and for the scripts
\* of the other folders, no script is modified.
CreateScripts ==
    { DEPLOYMENT_ORDER[i].filename : i \in { j \in 1 .. Len(DEPLOYMENT_ORDER) :
                                               DEPLOYMENT_ORDER[j].folder = "DDL" } }
ForceRecreate == \E j \in DOMAIN stack : stack[j].fn = "deploy_ddl" /\ stack[j].loc.force_recreate
ScriptUses ==
    { i \in DOMAIN stack : /\ stack[i].fn = "get_cursor"
                           /\ stack[i].loc.body0 # <<>>
                           /\ stack[i].loc.body0[1].op = "script" }

DropPrepended ==
    /\ \A i \in ScriptUses :
          LET st == stack[i].loc.body0[1] IN
          /\ Len(stack[i].loc.body0) = 1
          /\ st.drop = IF ForceRecreate /\ st.arg.filename \in CreateScripts
                       THEN <<ScriptTable(st.arg.filename)>> ELSE <<>>
    /\ stack = <<>> /\ LastCall = "_extract_table_name" =>
          LET filename == trace[LastCallIdx - 1].x.filename IN
          ret.val = IF filename \in CreateScripts THEN <<ScriptTable(filename)>> ELSE <<>>

DropPrependedWitness ==
    /\ ForceRecreate
    /\ stack[1].fn = "get_cursor" /\ stack[1].at = "putconn" /\ stack[1].loc.err = ""
    /\ stack[1].loc.body0[1].op = "script"
    /\ stack[1].loc.body0[1].drop = <<Qual("public", "new_agents")>>

UnresolvedWitness ==
    /\ stack = <<>> /\ LastCall = "_extract_table_name"
    /\ trace[LastCallIdx - 1].x.filename = "CREATE_new_agents.SQL"
    /\ ret.val = <<>>

\* C22: deploy_rls with enable=false returns at once a result with status
\* 'skipped' and a reason, raises nothing, and leaves the file system as
\* observed, the pool, the connections, the database, the deployment log
\* and the record of loads and executions as they were.
RlsDisabled == Running("deploy_rls", "start") /\ ~stack[1].loc.enable

SkippedWithoutIO ==
    [][ RlsDisabled =>
           /\ stack' = Tail(stack)
           /\ ~ret'.exc
           /\ ret'.val.status = "skipped"
           /\ ret'.val.reason # ""
           /\ UNCHANGED <<fs, pool, conns, db, deployment_log, trace, faults>> ]_vars

SkippedWitness ==
    /\ stack = <<>>
    /\ LastCall = "deploy_rls"
    /\ ~ret.exc
    /\ ret.val.status = "skipped"
    /\ LastCallIdx = Len(trace)
    /\ deployment_log = <<>>
    /\ fs.scripts[RLS_SCRIPT] = "unknown"

\* C23: test_connection, get_database_info, table_exists and get_row_count
\* never raise.  When the acquisition of the connection or the with-block
\* failed, they return False, the empty mapping, False and -1, and the
\* connection the with-block acquired is back in the pool or discarded, not
\* checked out, when the helper handles the failure and when it returns.
ReportingHelpers == {"test_connection", "get_database_info", "table_exists", "get_row_count"}
Sentinel(fn) ==
    CASE fn = "test_connection" -> FALSE
      [] fn = "table_exists" -> FALSE
      [] fn = "get_row_count" -> -1
      [] fn = "get_database_info" -> "empty"

HelpersNeverRaise ==
    [][ \A fn \in ReportingHelpers :
           Running(fn, "ret") =>
              /\ CheckedOut = 0
              /\ stack' = Tail(stack)
              /\ pool' = pool
              /\ ~ret'.exc
              /\ ret.exc => ret' = Ok(Sentinel(fn)) ]_vars

\* a failed query: the count of a table that does not exist
HelperFailureWitness ==
    /\ stack = <<>>
    /\ LastCall = "get_row_count"
    /\ lastUow.done /\ lastUow.raised
    /\ ret = Ok(-1)
    /\ CheckedOut = 0

\* a failed acquisition: the pool was closed before the call
AcquisitionFailureWitness ==
    /\ stack = <<>>
    /\ LastCall = "test_connection"
    /\ pool.status = "closed"
    /\ ret = Ok(FALSE)

\* C24: when DATABASE_URL is not set, deploy_database creates no connection
\* pool, executes no script, loads no CSV file and invokes no procedure, and
\* the report it returns has status 'failed'.
InDeployDatabase ==
    /\ LastCall \in {"main", "deploy_database"}
    /\ \E i \in DOMAIN stack : stack[i].fn = "deploy_database" /\ stack[i].at # "start"
NothingDone ==
    /\ pool.status = "none"
    /\ \A c \in ConnId : ~conns[c].live
    /\ \A k \in Idx : trace[k].ev \in {"call", "save_report"}
    /\ \A x \in ScriptFiles : fs.scripts[x] = "unknown"
    /\ \A c \in CsvFiles : fs.csv[c] = "unknown"
    /\ deployment_log = <<>> /\ load_log = <<>>

MissingConfiguration ==
    /\ InDeployDatabase /\ fs.database_url = "absent" =>
          /\ NothingDone
          /\ \A i \in DOMAIN stack :
                stack[i].fn = "deploy_database" => stack[i].at = "finally"
    /\ stack = <<>> /\ LastCall = "deploy_database" /\ fs.database_url = "absent" =>
          /\ NothingDone
          /\ ret.val.status = "failed"
          /\ ret.val.error # ""
    /\ stack = <<>> /\ LastCall = "main" /\ fs.database_url = "absent" =>
          /\ NothingDone
          /\ ret.val.report.status = "failed"

MissingConfigurationWitness ==
    /\ stack = <<>>
    /\ LastCall = "deploy_database"
    /\ fs.database_url = "absent"
    /\ ret.val.status = "failed"
    /\ ret.val.error = "Missing required environment variables"
    /\ pool.status = "none"

\* C25: when a run of deploy.py has exited, the report of deploy_database
\* was saved, once and as the last thing before the exit, whether its status
\* is 'success' or 'failed', and the exit code is 0 exactly when the status
\* is 'success', 1 otherwise; before the exit no report is saved while
\* deploy_database is still running.
SaveIdx == { k \in Idx : trace[k].ev = "save_report" }

ReportSaved ==
    LastCall = "main" =>
       /\ stack = <<>> =>
             /\ SaveIdx = {Len(trace)}
             /\ trace[Len(trace)].x = ret.val.report.status
             /\ ret.val.report.status \in {"success", "failed"}
             /\ ret.val.exit_code = IF ret.val.report.status = "success" THEN 0 ELSE 1
       /\ stack # <<>> => SaveIdx = {}

ReportSavedWitness ==
    /\ stack = <<>>
    /\ LastCall = "main"
    /\ ret.val.report.status = "failed"
    /\ ret.val.exit_code = 1
    /\ SaveIdx # {}

ReportSavedSuccessWitness ==
    /\ stack = <<>>
    /\ LastCall = "main"
    /\ ret.val.report.status = "success"
    /\ ret.val.exit_code = 0
    /\ SaveIdx # {}

\* C26: a run of deploy_database in which the four phases succeeded (the
\* policy script included), no CSV file is present and nothing failed
\* returns status 'success' with 5 schema scripts, 3 function scripts and
\* 1 trigger script counted, and reports the data stage as not run: the
\* report has no data sub-report and no data stage was started.
EmptyScenario ==
    /\ stack = <<>> /\ LastCall = "deploy_database"
    /\ faults = 0
    /\ "sql_deployment" \in ret.val.keys
    /\ ret.val.sql_deployment.status = "success"
    /\ ret.val.sql_deployment.rls_enabled
    /\ \A c \in CsvFiles : fs.csv[c] = "absent"
DataStageRun(r) ==
    \/ r.keys \cap {"data_pipeline", "data_load"} # {}
    \/ \E k \in StageIdx : trace[k].x \in {"data_pipeline", "data_load"}

EmptyRunNotRun ==
    EmptyScenario =>
       /\ ret.val.status = "success"
       /\ ret.val.sql_deployment.ddl_count = 5
       /\ ret.val.sql_deployment.function_count = 3
       /\ ret.val.sql_deployment.trigger_count = 1
       /\ ~DataStageRun(ret.val)

\* C27: every row count of a report is non-negative: rows_loaded of every
\* entry of the load log, total_rows of the summary load_all_csvs is
\* building and of the one it returned, and row_count of every table entry
\* of the verification report being built and of the one returned.
NonNegative(entries) == \A i \in 1 .. Len(entries) : entries[i].row_count >= 0

NonNegativeCounts ==
    /\ \A i \in 1 .. Len(load_log) : load_log[i].rows_loaded >= 0
    /\ \A i \in DOMAIN stack :
          /\ stack[i].fn = "load_all_csvs" => stack[i].loc.total_rows >= 0
          /\ stack[i].fn = "verify_deployment" => NonNegative(stack[i].loc.tables)
    /\ stack = <<>> /\ LastCall = "load_all_csvs" /\ ret.val.status = "success" =>
          ret.val.total_rows >= 0
    /\ stack = <<>> /\ LastCall = "verify_deployment" => NonNegative(ret.val.tables)

\* C28: bounded pool.  An acquisition made on the open pool while fewer
\* than max_conn connections are checked out does not fail for lack of a
\* connection; an acquisition made while max_conn connections are checked
\* out does not complete, neither by returning nor by raising, as long as
\* none of them is released.
Acquiring == Running("get_cursor", "getconn")

BlocksWhenExhausted ==
    [][ /\ Acquiring /\ pool.status = "open" /\ CheckedOut < MaxConn =>
              ~(stack' = Tail(stack) /\ ret'.err = "PoolError")
        /\ Acquiring /\ CheckedOut = MaxConn /\ pool' = pool =>
              stack' = stack ]_vars

\* C29: a load of a CSV file that has a header and no data row, once a load
\* path was attempted, ends with status 'success' and rows loaded = 0, by
\* the bulk path and by the batched-insert path, no INSERT statement was
\* sent and the tables hold no row.
HeaderOnlyLoad ==
    stack = <<>> /\ LastCall = "load_csv" =>
       LET k == LastCallIdx + 1
           csv == trace[k].x.csv IN
       Attempted(k) # {} /\ fs.rows[csv] = 0 =>
          /\ ~ret.exc
          /\ ret.val.status = "success"
          /\ ret.val.rows_loaded = 0
          /\ load_log = <<ret.val>>
          /\ Window(k, "insert") = {}
          /\ \A t \in AllTables : db.rows[t] = 0

HeaderOnlyBulkWitness ==
    /\ stack = <<>> /\ LastCall = "load_csv"
    /\ trace[LastCallIdx + 1].x.use_copy
    /\ \E m \in Window(LastCallIdx + 1, "copy") : trace[m].ok
    /\ Window(LastCallIdx + 1, "bulk_failed") = {}
    /\ fs.rows[trace[LastCallIdx + 1].x.csv] = 0
    /\ ~ret.exc /\ ret.val.rows_loaded = 0

HeaderOnlyInsertWitness ==
    /\ stack = <<>> /\ LastCall = "load_csv"
    /\ ~trace[LastCallIdx + 1].x.use_copy
    /\ Window(LastCallIdx + 1, "insert_path") # {}
    /\ fs.rows[trace[LastCallIdx + 1].x.csv] = 0
    /\ ~ret.exc /\ ret.val.rows_loaded = 0

\* C30: the deployment log and the load log are append-only.  Every step
\* leaves each log as it was or with one entry added at its end; and the
\* deployment log holds, in the order of execution, one entry for each
\* script that was read and handed to _execute_sql_script, the last one
\* being added when its execution is over.
IsPrefixOf(s, t) == Len(s) <= Len(t) /\ SubSeq(t, 1, Len(s)) = s
Grown(s, t) == IsPrefixOf(s, t) /\ Len(t) <= Len(s) + 1
Attempts == { k \in Idx : trace[k].ev = "load" }
Executing == \E i \in DOMAIN stack : stack[i].fn = "_execute_sql_script"
OnePerAttempt ==
    /\ Len(deployment_log) = Cardinality(Attempts) - (IF Executing THEN 1 ELSE 0)
    /\ \A k \in Attempts :
          Nth(Attempts, k) <= Len(deployment_log) =>
             /\ deployment_log[Nth(Attempts, k)].script = trace[k].x
             /\ deployment_log[Nth(Attempts, k)].status \in {"success", "failed"}

LoadOnly(f) == f.load_data /\ ~f.run_pipeline
SinceCall(evs) == { k \in Idx : k > LastCallIdx /\ trace[k].ev \in evs }
LoadOnlyOutcome(r) ==
    /\ "data_pipeline" \notin r.keys
    /\ "data_load" \in r.keys =>
          (r.status = "failed" <=> r.data_load.status # "success")

NoPipelineLoadsOnly ==
    /\ \A i \in DOMAIN stack :
          stack[i].fn = "deploy_database" /\ LoadOnly(stack[i].loc) =>
             /\ \A j \in DOMAIN stack : stack[j].fn # "run_data_pipeline"
             /\ SinceCall({"invoke", "query"}) = {}
             /\ \A k \in StageIdx : k > LastCallIdx => trace[k].x # "data_pipeline"
             /\ stack[i].at = "finally" => LoadOnlyOutcome(stack[i].loc.report)
    /\ stack = <<>> /\ LastCall = "deploy_database" /\ LoadOnly(ret.val.configuration) =>
          /\ SinceCall({"invoke", "query"}) = {}
          /\ LoadOnlyOutcome(ret.val)

NoPipelineLoadsOnlyWitness ==
    /\ stack = <<>> /\ LastCall = "deploy_database"
    /\ LoadOnly(ret.val.configuration)
    /\ "data_load" \in ret.val.keys
    /\ ret.val.data_load.status = "failed"
    /\ ret.val.status = "failed"
    /\ SinceCall({"load_csv"}) # {}

NoPipelineSuccessWitness ==
    /\ stack = <<>> /\ LastCall = "deploy_database"
    /\ LoadOnly(ret.val.configuration)
    /\ "data_load" \in ret.val.keys
    /\ ret.val.status = "success"

\* C32: the shape of a cursor's rows is decided by the acquisition that
\* obtained it: a scoped use with dict_cursor=False has a cursor with
\* positional rows, whatever earlier uses of the pooled connection asked
\* for.
Obtained(fr) == fr.fn = "get_cursor" /\ fr.at # "getconn"
ShapeOfAcquisition ==
    \A i \in DOMAIN stack :
       Obtained(stack[i]) /\ ~stack[i].loc.dict_cursor => ~stack[i].loc.shape

\* C33: whenever deploy_all returns status 'failed', the deployment log of
\* the returned summary ends with an entry of status 'failed' and every
\* entry before it has status 'success', for a script whose file is
\* missing as for a script whose execution raised.
EndsInFailure(log) ==
    /\ log # <<>>
    /\ log[Len(log)].status = "failed"
    /\ \A i \in 1 .. Len(log) - 1 : log[i].status = "success"

FailedLogEndsInFailure ==
    stack = <<>> /\ LastCall = "deploy_all" /\ ret.val.status = "failed" =>
       EndsInFailure(ret.val.deployment_log)

\* C34: a failed load leaves nothing behind.  Whenever a call of load_csv
\* on a database whose tables were empty has raised, no row is committed to
\* any table, also when the batched-insert path fails in a batch after the
\* first one.
NoRows(d) == \A t \in DOMAIN d.rows : d.rows[t] = 0
FailedLoadIsAtomic ==
    stack = <<>> /\ LastCall = "load_csv" /\ ret.exc => NoRows(db)

\* C35: during a run of deploy_database at most one pooled connection is
\* checked out, it is the one of the single scoped use in progress, and
\* every acquisition on the open pool finds no connection checked out, so
\* a pool of one connection is never exhausted.
ScopedUses == { i \in DOMAIN stack : stack[i].fn = "get_cursor" }
OneConnectionAtATime ==
    InDeployDatabase =>
       /\ CheckedOut <= 1
       /\ Cardinality(ScopedUses) <= 1
       /\ \A i \in ScopedUses : i = 1
       /\ Acquiring => pool.used = {}
       /\ ScopedUses = {} => pool.used = {}

OneConnectionWitness ==
    /\ InDeployDatabase
    /\ Acquiring
    /\ pool.status = "open"
    /\ \E k \in Idx : k > LastCallIdx /\ trace[k].ev = "insert" /\ trace[k].ok
    /\ \E i \in DOMAIN stack : stack[i].fn = "_get_pipeline_stats"

\* C36: in schema-only mode the outcome does not depend on the CSV
\* sources.  A run of deploy_database with load_data=False that found the
\* script directory executes the SQL stage and does not fail on account of
\* the CSV directory, as the same run with the CSV directory present does.
SchemaOnlyReturned ==
    /\ stack = <<>> /\ LastCall = "deploy_database"
    /\ ~ret.val.configuration.load_data
    /\ fs.sql_dir = "present"
SchemaOnlyIgnoresCsv ==
    SchemaOnlyReturned =>
       /\ "sql_deployment" \in ret.val.keys
       /\ ret.val.error # "CSV base path not found"

\* C37: the static tables agree on destinations.  The table a started load
\* of a mapped CSV file goes to is one of the tables verify_deployment
\* expects and is the table the force_recreate lookup finds for one of the
\* CREATE scripts.
Dropped == { t \in AllTables : \E f \in CreateScripts : _extract_table_name(f) = <<t>> }
DestinationsAgree ==
    \A k \in LoadStarts :
       Mapped(trace[k].x.csv) # {} =>
          /\ Destination(trace[k].x.csv) \in Range(expected_tables)
          /\ Destination(trace[k].x.csv) \in Dropped

\* C38: a failed statistics read-back does not change the outcome of
\* run_data_pipeline.  Once the read-back has been started both procedures
\* have been invoked exactly once, successfully; the call then returns
\* status 'success', with empty statistics when the read failed, and no
\* procedure is invoked again.
InvokedOnce ==
    /\ Cardinality(SinceCall({"invoke"})) = 2
    /\ \A k \in SinceCall({"invoke"}) : trace[k].ok
    /\ \E k \in SinceCall({"invoke"}) : trace[k].x = Recon
    /\ \E k \in SinceCall({"invoke"}) : trace[k].x = Merge
StatsFailed == \E k \in SinceCall({"query"}) : ~trace[k].ok

StatsFailureIsHarmless ==
    LastCall = "run_data_pipeline" =>
       /\ \A i \in DOMAIN stack :
             stack[i].fn = "run_data_pipeline" /\ stack[i].at = "stats_ret" => InvokedOnce
       /\ Running("run_data_pipeline", "stats_ret") =>
             /\ ~ret.exc
             /\ StatsFailed => ret.val = "empty"
       /\ stack = <<>> /\ SinceCall({"query"}) # {} =>
             /\ ret.val.status = "success"
             /\ InvokedOnce
             /\ StatsFailed => ret.val.statistics = "empty"

StatsFailureWitness ==
    /\ stack = <<>> /\ LastCall = "run_data_pipeline"
    /\ StatsFailed
    /\ ret.val.status = "success"
    /\ ret.val.statistics = "empty"

\* C39: the partial load log survives a pipeline failure.  Whenever
\* run_data_pipeline returns status 'failed' its result contains the CSV
\* load summary.
PartialLogRetained ==
    stack = <<>> /\ LastCall = "run_data_pipeline" /\ ret.val.status = "failed" =>
       ret.val.has_load_summary

\* C40: shape of every report returned by deploy_database.  The status is
\* 'success' or 'failed'; the error field is present exactly when the
\* status is 'failed'; run id, start time, configuration, end time and
\* total duration are present; a verification sub-report is present only
\* if verify was selected and the SQL deployment succeeded, and a data
\* sub-report only if load_data was selected and the SQL deployment
\* succeeded.
SqlSucceeded(r) == "sql_deployment" \in r.keys /\ r.sql_deployment.status = "success"
Shape(r) ==
    /\ r.status \in {"success", "failed"}
    /\ "error" \in r.keys <=> r.status = "failed"
    /\ {"deployment_id", "start_time", "configuration", "end_time",
        "total_duration_seconds", "status"} \subseteq r.keys
    /\ "verification" \in r.keys => r.configuration.verify /\ SqlSucceeded(r)
    /\ r.keys \cap {"data_pipeline", "data_load"} # {} =>
          /\ r.configuration.load_data /\ SqlSucceeded(r)
          /\ r.keys \cap {"data_pipeline", "data_load"} = {DataKey(r)}

ReportShape ==
    /\ stack = <<>> /\ LastCall = "deploy_database" => Shape(ret.val)
    /\ stack = <<>> /\ LastCall = "main" => Shape(ret.val.report)
    /\ Running("main", "report_ret") => Shape(ret.val)

ReportShapeWitness ==
    /\ stack = <<>> /\ LastCall = "deploy_database"
    /\ ret.val.status = "success"
    /\ {"verification", "data_pipeline"} \subseteq ret.val.keys

ReportShapeFailedWitness ==
    /\ stack = <<>> /\ LastCall = "deploy_database"
    /\ ret.val.status = "failed"
    /\ "error" \in ret.val.keys
    /\ "verification" \in ret.val.keys
    /\ "data_load" \in ret.val.keys

====
